---- MODULE Spec2Model ----
(***************************************************************************)
(* A model of the candidate scoring core of the recruitment backend:       *)
(*   - MatchingService (services/matching.py): skill / experience /        *)
(*     education scoring, the weighted overall score, the recommendation   *)
(*     tier and the ranking of a batch;                                    *)
(*   - the lazy model loading of MatchingService and                       *)
(*     SentimentAnalysisService;                                           *)
(*   - the screening and interview handlers (routes/jobs.py,               *)
(*     routes/interviews.py) that persist ScreeningResult documents and    *)
(*     blend the interview analysis into them.                             *)
(*                                                                         *)
(* Three specifications share the variables:                               *)
(*   - SpecScore: one call of match_candidates on bounded inputs;          *)
(*   - SpecLoad:  the lifespan preloading and the requests that call       *)
(*     _initialize of a service, interleaved at the await of the load;     *)
(*   - SpecFlow:  the handlers on the database, interleaved at their       *)
(*     awaits.                                                             *)
(*                                                                         *)
(* Numbers.  Python floats are modelled by exact rationals:                *)
(*   - a similarity / confidence is an integer number of 1/10000;          *)
(*   - skill_score and the unrounded overall score are records             *)
(*     [num, den] (the value num/den, in points);                          *)
(*   - a score rounded by round(x, 1) is an integer number of tenths;      *)
(*   - final_score is an integer number of hundredths.                     *)
(* lower(), the substring test and the digit search are computed on the    *)
(* strings, not assumed.                                                   *)
(* An Optional value is <<>> (None) or <<v>>.                              *)
(***************************************************************************)
EXTENDS Integers, Sequences, FiniteSets, TLC

VARIABLES
    job,        \* the JobDescription handed to match_candidates
    resumes,    \* the list of Resume documents handed to match_candidates
    embedSim,   \* the embedding model's cosine similarities (its answers)
    svc,        \* per service: [model, initialized] (self.model, self._initialized)
    outcomes,   \* what match_candidates returned
    phase,      \* "ready" before the call, "done" after it; the lifespan:
                \* "startup", "serving"
    callers,    \* per service and request: where the request is in _initialize
    loads,      \* per service: the load_model calls handed to the executor
    jobs,       \* the collection job_descriptions: job id -> document
    screening_results,  \* the collection screening_results, in insertion order
    interviews, \* the collection interviews: interview id -> document
    requests,   \* the requests being served: handler, position, local variables
    received,   \* how many requests were received so far
    transcript_text,  \* the interview transcript handed to analyze
    classifier, \* the sentiment pipeline's answers (per sentence)
    sentiment_analysis,  \* what analyze returned: None, or Some(result)
    raw_text,   \* the text extracted from a resume file
    nlp,        \* the spaCy pipeline's answers (the entities it finds)
    skills_database,  \* the set skills_database in the order this process
                      \* iterates it
    parsed_data,  \* the ParsedResumeData of the parse_resume calls, in call order
    active_connections,  \* ConnectionManager: user_id -> list of websockets
    all_connections,     \* ConnectionManager: the set of the websockets
    connection_info,     \* ConnectionManager: websocket -> its metadata
    sockets,    \* per websocket: where its endpoint is, whether the peer is
                \* gone, the events it was sent
    sends,      \* the send_to_user calls in progress, with their local variables
    clock       \* datetime.utcnow(), in ticks

\* the database and the requests working on it
storeVars == <<jobs, screening_results, interviews, requests, received>>

\* the transcript analysis and the resume text extraction
textVars == <<transcript_text, classifier, sentiment_analysis, raw_text, nlp,
              skills_database, parsed_data>>

\* the websockets and their manager
socketVars == <<active_connections, all_connections, connection_info, sockets,
                sends, clock>>

vars == <<job, resumes, embedSim, svc, outcomes, phase, callers, loads, storeVars,
          textVars, socketVars>>

\* no websocket was ever connected
NoSockets ==
    /\ active_connections = <<>>
    /\ all_connections = {}
    /\ connection_info = <<>>
    /\ sockets = <<>>
    /\ sends = <<>>
    /\ clock = 0

\* ------------------------------------------------------------------ bounds
MaxReq == 2        \* longest required_skills list of a job
MaxCand == 2       \* longest skills list of a resume
MaxResumes == 3    \* largest batch handed to match_candidates
MaxCallers == 2    \* requests that call _initialize of one service
MaxRequests == 4   \* requests received in a run of the screening flow
MaxInFlight == 2   \* requests served at the same time

\* ----------------------------------------------------------------- helpers
None == <<>>
Some(v) == <<v>>
IsNone(o) == o = <<>>
Val(o) == o[1]

SeqUpTo(S, n) == UNION {[1..k -> S] : k \in 0..n}

RECURSIVE SumSeq(_)
SumSeq(s) == IF s = <<>> THEN 0 ELSE Head(s) + SumSeq(Tail(s))

Min(a, b) == IF a <= b THEN a ELSE b
Max(a, b) == IF a >= b THEN a ELSE b

\* --------------------------------------------------------------- strings
\* Strings are TLA+ strings; TLC evaluates Len, SubSeq and \o on them.
Char(s, i) == SubSeq(s, i, i)

\* str.lower() on one character
UpperToLower ==
    [c \in {"A", "B", "C", "D", "E", "F", "G", "H", "I", "J", "K", "L", "M",
            "N", "O", "P", "Q", "R", "S", "T", "U", "V", "W", "X", "Y", "Z"} |->
        CASE c = "A" -> "a" [] c = "B" -> "b" [] c = "C" -> "c" [] c = "D" -> "d"
          [] c = "E" -> "e" [] c = "F" -> "f" [] c = "G" -> "g" [] c = "H" -> "h"
          [] c = "I" -> "i" [] c = "J" -> "j" [] c = "K" -> "k" [] c = "L" -> "l"
          [] c = "M" -> "m" [] c = "N" -> "n" [] c = "O" -> "o" [] c = "P" -> "p"
          [] c = "Q" -> "q" [] c = "R" -> "r" [] c = "S" -> "s" [] c = "T" -> "t"
          [] c = "U" -> "u" [] c = "V" -> "v" [] c = "W" -> "w" [] c = "X" -> "x"
          [] c = "Y" -> "y" [] c = "Z" -> "z"]

LowerChar(c) == IF c \in DOMAIN UpperToLower THEN UpperToLower[c] ELSE c

\* str.lower()
RECURSIVE LowerFrom(_, _)
LowerFrom(s, i) ==
    IF i > Len(s) THEN ""
    ELSE IF i = Len(s) THEN LowerChar(Char(s, i))
    ELSE LowerFrom(SubSeq(s, 1, (i + Len(s)) \div 2), i)
            \o LowerFrom(s, (i + Len(s)) \div 2 + 1)

Lower(s) == LowerFrom(s, 1)

\* Python's `a in b` on strings
IsSubstr(a, b) ==
    \E i \in 0..(Len(b) - Len(a)) : SubSeq(b, i + 1, i + Len(a)) = a

Digits == {"0", "1", "2", "3", "4", "5", "6", "7", "8", "9"}

DigitVal(c) ==
    CASE c = "0" -> 0 [] c = "1" -> 1 [] c = "2" -> 2 [] c = "3" -> 3
      [] c = "4" -> 4 [] c = "5" -> 5 [] c = "6" -> 6 [] c = "7" -> 7
      [] c = "8" -> 8 [] c = "9" -> 9

\* the value of the maximal run of digits of s that starts at i
RECURSIVE DigitRun(_, _, _)
DigitRun(s, i, acc) ==
    IF i <= Len(s) /\ Char(s, i) \in Digits
    THEN DigitRun(s, i + 1, 10 * acc + DigitVal(Char(s, i)))
    ELSE acc

\* re.search(r'(\d+)', s): None, or Some(float(group(1))) of the first
\* run of digits
FirstInt(s) ==
    IF \E i \in 1..Len(s) : Char(s, i) \in Digits
    THEN LET i == CHOOSE j \in 1..Len(s) :
                      /\ Char(s, j) \in Digits
                      /\ \A k \in 1..(j - 1) : Char(s, k) \notin Digits
         IN Some(DigitRun(s, i, 0))
    ELSE None

\* ------------------------------------------------------------- rationals
Rat(n, d) == [num |-> n, den |-> d]
RatGe(r, k) == r.num >= k * r.den
RatLe(r, k) == r.num <= k * r.den
RatEq(a, b) == a.num * b.den = b.num * a.den

\* round(x, 1) of the value num/den >= 0, in tenths (ties to even, as
\* Python's round does on an exactly representable tie)
Round1(r) ==
    LET q == (10 * r.num) \div r.den
        m == (10 * r.num) % r.den
    IN IF 2 * m < r.den THEN q
       ELSE IF 2 * m > r.den THEN q + 1
       ELSE IF q % 2 = 0 THEN q ELSE q + 1

RatMin(r, k) == IF RatGe(r, k) THEN Rat(k * r.den, r.den) ELSE r

\* ------------------------------------------------------- MatchingService
SimScale == 10000             \* a similarity of 1.0
ExactConfidence == 10000      \* confidence=1.0, matched_count += 1
PartialConfidence == 8000     \* confidence=0.8, matched_count += 0.8
SemanticThreshold == 6000     \* best_score >= 0.6

SkillMatch(skill, matched, type, conf) ==
    [skill |-> skill, is_matched |-> matched, match_type |-> type,
     confidence |-> conf]

\* util.cos_sim(model.encode(a), model.encode(b)): the answer of the
\* embedding model (all-MiniLM-L6-v2, uncased), symmetric in its arguments
CosSim(a, b) == embedSim[{Lower(a), Lower(b)}]

\* the answer of the embedding model on a pair when its call raises
EncodeRaises == -1

\* _semantic_skill_match: None, or Some([matched_skill, confidence]); an
\* exception of the model call (`except Exception`) gives None
semantic_skill_match(required_skill, candidate_skills) ==
    LET n == Len(candidate_skills)
        similarities == [i \in 1..n |-> CosSim(required_skill, candidate_skills[i])]
        best_idx == CHOOSE i \in 1..n :
                        /\ \A j \in 1..n : similarities[j] <= similarities[i]
                        /\ \A j \in 1..(i - 1) : similarities[j] < similarities[i]
        best_score == similarities[best_idx]
    IN IF \E i \in 1..n : similarities[i] = EncodeRaises
       THEN None
       ELSE IF best_score >= SemanticThreshold
       THEN Some([matched_skill |-> candidate_skills[best_idx],
                  confidence |-> best_score])
       ELSE None

\* mutant of match_required_skill: the substring test is tried before the
\* equality test
match_required_skill_partial_first(req_skill, candidate_skills, candidate_skills_lower, mdl) ==
    LET req_skill_lower == Lower(req_skill)
        n == Len(candidate_skills)
    IN IF \E i \in 1..n :
              \/ IsSubstr(req_skill_lower, candidate_skills_lower[i])
              \/ IsSubstr(candidate_skills_lower[i], req_skill_lower)
       THEN [rec |-> SkillMatch(req_skill, TRUE, "partial", PartialConfidence),
             inc |-> PartialConfidence]
       ELSE IF \E i \in 1..n : candidate_skills_lower[i] = req_skill_lower
       THEN [rec |-> SkillMatch(req_skill, TRUE, "exact", ExactConfidence),
             inc |-> ExactConfidence]
       ELSE LET semantic_match ==
                    IF ~IsNone(mdl) /\ n > 0
                    THEN semantic_skill_match(req_skill, candidate_skills)
                    ELSE None
            IN IF ~IsNone(semantic_match)
               THEN [rec |-> SkillMatch(req_skill, TRUE, "semantic",
                                        Val(semantic_match).confidence),
                     inc |-> Val(semantic_match).confidence]
               ELSE [rec |-> SkillMatch(req_skill, FALSE, "none", 0),
                     inc |-> 0]

\* mutant of match_required_skill: a partial match adds 1 to matched_count
match_required_skill_partial_counts_one(req_skill, candidate_skills, candidate_skills_lower, mdl) ==
    LET req_skill_lower == Lower(req_skill)
        n == Len(candidate_skills)
    IN IF \E i \in 1..n : candidate_skills_lower[i] = req_skill_lower
       THEN [rec |-> SkillMatch(req_skill, TRUE, "exact", ExactConfidence),
             inc |-> ExactConfidence]
       ELSE IF \E i \in 1..n :
                   \/ IsSubstr(req_skill_lower, candidate_skills_lower[i])
                   \/ IsSubstr(candidate_skills_lower[i], req_skill_lower)
       THEN [rec |-> SkillMatch(req_skill, TRUE, "partial", PartialConfidence),
             inc |-> ExactConfidence]
       ELSE LET semantic_match ==
                    IF ~IsNone(mdl) /\ n > 0
                    THEN semantic_skill_match(req_skill, candidate_skills)
                    ELSE None
            IN IF ~IsNone(semantic_match)
               THEN [rec |-> SkillMatch(req_skill, TRUE, "semantic",
                                        Val(semantic_match).confidence),
                     inc |-> Val(semantic_match).confidence]
               ELSE [rec |-> SkillMatch(req_skill, FALSE, "none", 0),
                     inc |-> 0]

\* one pass of the loop of _calculate_skill_match over a required skill:
\* the SkillMatch appended (rec) and what is added to matched_count (inc)
match_required_skill(req_skill, candidate_skills, candidate_skills_lower, mdl) ==
    LET req_skill_lower == Lower(req_skill)
        n == Len(candidate_skills)
    IN IF \E i \in 1..n : candidate_skills_lower[i] = req_skill_lower
       THEN [rec |-> SkillMatch(req_skill, TRUE, "exact", ExactConfidence),
             inc |-> ExactConfidence]
       ELSE IF \E i \in 1..n :
                   \/ IsSubstr(req_skill_lower, candidate_skills_lower[i])
                   \/ IsSubstr(candidate_skills_lower[i], req_skill_lower)
       THEN [rec |-> SkillMatch(req_skill, TRUE, "partial", PartialConfidence),
             inc |-> PartialConfidence]
       ELSE LET semantic_match ==
                    IF ~IsNone(mdl) /\ n > 0
                    THEN semantic_skill_match(req_skill, candidate_skills)
                    ELSE None
            IN IF ~IsNone(semantic_match)
               THEN [rec |-> SkillMatch(req_skill, TRUE, "semantic",
                                        Val(semantic_match).confidence),
                     inc |-> Val(semantic_match).confidence]
               ELSE [rec |-> SkillMatch(req_skill, FALSE, "none", 0),
                     inc |-> 0]

\* the loop `for req_skill in required_skills`, from index i on;
\* acc = [skill_matches, matched_count]
RECURSIVE skill_loop(_, _, _, _, _, _)
skill_loop(candidate_skills, candidate_skills_lower, required_skills, mdl, i, acc) ==
    IF i > Len(required_skills) THEN acc
    ELSE LET r == match_required_skill(required_skills[i], candidate_skills,
                                       candidate_skills_lower, mdl)
         IN skill_loop(candidate_skills, candidate_skills_lower,
                required_skills, mdl, i + 1,
                [skill_matches |-> Append(acc.skill_matches, r.rec),
                 matched_count |-> acc.matched_count + r.inc])

\* [s.lower() for s in candidate_skills]
lower_all(candidate_skills) ==
    [i \in 1..Len(candidate_skills) |-> Lower(candidate_skills[i])]

\* (matched_count / len(required_skills)) * 100, matched_count counted in
\* 1/SimScale
skill_ratio(acc, n) == Rat(acc.matched_count, (SimScale \div 100) * n)

\* mutant of skill_result: skill_score is returned unclamped
skill_result_unclamped(acc, n) ==
    [skill_matches |-> acc.skill_matches, skill_score |-> skill_ratio(acc, n)]

\* the end of _calculate_skill_match: the score, under min(., 100.0)
skill_result(acc, n) ==
    [skill_matches |-> acc.skill_matches,
     skill_score |-> RatMin(skill_ratio(acc, n), 100)]

\* mutant of calculate_skill_match: no required skill scores 0, as no
\* skill matched
calculate_skill_match_empty_scores_zero(candidate_skills, required_skills, mdl) ==
    IF required_skills = <<>>
    THEN [skill_matches |-> <<>>, skill_score |-> Rat(0, 1)]
    ELSE skill_result(skill_loop(candidate_skills, lower_all(candidate_skills),
                          required_skills, mdl, 1,
                          [skill_matches |-> <<>>, matched_count |-> 0]),
                      Len(required_skills))

\* _calculate_skill_match: [skill_matches, skill_score]
calculate_skill_match(candidate_skills, required_skills, mdl) ==
    IF required_skills = <<>>
    THEN [skill_matches |-> <<>>, skill_score |-> Rat(100, 1)]
    ELSE skill_result(skill_loop(candidate_skills, lower_all(candidate_skills),
                          required_skills, mdl, 1,
                          [skill_matches |-> <<>>, matched_count |-> 0]),
                      Len(required_skills))

ContainsAny(text, words) == \E w \in words : IsSubstr(w, text)

\* mutant of calculate_experience_score: the tiers below the requirement
\* are entered above their thresholds only (> for >=)
calculate_experience_score_strict_tiers(experience_text, years, required_experience) ==
    IF required_experience = "" THEN 80
    ELSE IF IsNone(FirstInt(required_experience)) THEN 70
    ELSE IF IsNone(years) THEN 50
    ELSE IF Val(years) >= Val(FirstInt(required_experience)) THEN 100
    ELSE IF 10 * Val(years) > 7 * Val(FirstInt(required_experience)) THEN 80
    ELSE IF 10 * Val(years) > 5 * Val(FirstInt(required_experience)) THEN 60
    ELSE 40

\* _calculate_experience_score; years is None or Some(whole years)
calculate_experience_score(experience_text, years, required_experience) ==
    IF required_experience = "" THEN 80
    ELSE LET req_years_match == FirstInt(required_experience)
         IN IF IsNone(req_years_match) THEN 70
            ELSE LET req_years == Val(req_years_match)
                     exp_lower == Lower(experience_text)
                 IN IF ~IsNone(years)
                    THEN (IF Val(years) >= req_years THEN 100
                          ELSE IF 10 * Val(years) >= 7 * req_years THEN 80
                          ELSE IF 10 * Val(years) >= 5 * req_years THEN 60
                          ELSE 40)
                    ELSE IF ContainsAny(exp_lower,
                                {"senior", "lead", "principal", "manager"})
                    THEN (IF req_years <= 5 THEN 90 ELSE 70)
                    ELSE IF ContainsAny(exp_lower, {"mid", "intermediate"})
                    THEN (IF req_years <= 3 THEN 80 ELSE 50)
                    ELSE IF ContainsAny(exp_lower,
                                {"junior", "entry", "fresher", "intern"})
                    THEN (IF req_years <= 1 THEN 70 ELSE 30)
                    ELSE 50

\* the dict education_levels, in its insertion order
education_levels ==
    << <<"phd", 100>>, <<"doctorate", 100>>, <<"master", 80>>,
       <<"m.tech", 80>>, <<"m.s.", 80>>, <<"bachelor", 60>>,
       <<"b.tech", 60>>, <<"b.e.", 60>>, <<"b.s.", 60>>,
       <<"diploma", 40>>, <<"certification", 30>> >>

\* candidate_level: the highest level whose keyword is in the text, else 0
RECURSIVE candidate_level_from(_, _, _)
candidate_level_from(edu_lower, i, level) ==
    IF i > Len(education_levels) THEN level
    ELSE candidate_level_from(edu_lower, i + 1,
            IF IsSubstr(education_levels[i][1], edu_lower)
            THEN Max(level, education_levels[i][2]) ELSE level)

\* mutant of required_level_of: a requirement without a keyword asks for
\* no level
required_level_of_default_zero(req_lower) ==
    IF \E i \in 1..Len(education_levels) : IsSubstr(education_levels[i][1], req_lower)
    THEN LET i == CHOOSE j \in 1..Len(education_levels) :
                      /\ IsSubstr(education_levels[j][1], req_lower)
                      /\ \A k \in 1..(j - 1) :
                            ~IsSubstr(education_levels[k][1], req_lower)
         IN education_levels[i][2]
    ELSE 0

\* required_level: the level of the first keyword (in dict order) in the
\* text, else 60
required_level_of(req_lower) ==
    IF \E i \in 1..Len(education_levels) : IsSubstr(education_levels[i][1], req_lower)
    THEN LET i == CHOOSE j \in 1..Len(education_levels) :
                      /\ IsSubstr(education_levels[j][1], req_lower)
                      /\ \A k \in 1..(j - 1) :
                            ~IsSubstr(education_levels[k][1], req_lower)
         IN education_levels[i][2]
    ELSE 60

\* _calculate_education_score
calculate_education_score(education_text, required_education) ==
    IF required_education = "" THEN 80
    ELSE LET candidate_level == candidate_level_from(Lower(education_text), 1, 0)
             required_level == required_level_of(Lower(required_education))
         IN IF candidate_level >= required_level THEN 100
            ELSE IF candidate_level >= required_level - 20 THEN 80
            ELSE IF candidate_level >= required_level - 40 THEN 60
            ELSE 40

\* skill_score * 0.7 + experience_score * 0.2 + education_score * 0.1
weighted_overall(skill_score, experience_score, education_score) ==
    Rat(7 * skill_score.num
          + skill_score.den * (2 * experience_score + education_score),
        10 * skill_score.den)

\* the if/elif chain on overall_score
recommendation_of(overall_score) ==
    IF RatGe(overall_score, 75) THEN "highly_recommended"
    ELSE IF RatGe(overall_score, 60) THEN "recommended"
    ELSE IF RatGe(overall_score, 45) THEN "maybe"
    ELSE "not_recommended"

\* [sm.skill for sm in skill_matches if sm.is_matched]
matched_skills_of(skill_matches) ==
    SelectSeq([i \in 1..Len(skill_matches) |->
                  [skill |-> skill_matches[i].skill,
                   is_matched |-> skill_matches[i].is_matched]],
              LAMBDA m : m.is_matched)

\* the dict _match_single_candidate returns (the fields copied from
\* parsed_data unchanged are left out, but for skills)
candidate_result(resume, sk, experience_score, education_score) ==
    [resume_id |-> resume.id,
     skills |-> resume.skills,
     score |-> Round1(weighted_overall(sk.skill_score, experience_score,
                                       education_score)),
     score_breakdown |-> [skill_score |-> sk.skill_score,
                          experience_score |-> experience_score,
                          education_score |-> education_score],
     skill_matches |-> sk.skill_matches,
     matched_skills_count |-> Len(matched_skills_of(sk.skill_matches)),
     recommendation |-> recommendation_of(
         weighted_overall(sk.skill_score, experience_score, education_score))]

\* _match_single_candidate
match_single_candidate(resume, jb, mdl) ==
    candidate_result(resume,
        calculate_skill_match(resume.skills, jb.required_skills, mdl),
        calculate_experience_score(resume.experience,
            resume.years_of_experience, jb.experience_required),
        calculate_education_score(resume.education, jb.education_required))

\* mutant of insert_desc: an element goes before the elements of equal
\* score (a descending sort that is not stable)
RECURSIVE insert_desc_before_equal(_, _)
insert_desc_before_equal(sorted, x) ==
    IF sorted = <<>> THEN <<x>>
    ELSE IF Head(sorted).score > x.score
    THEN <<Head(sorted)>> \o insert_desc_before_equal(Tail(sorted), x)
    ELSE <<x>> \o sorted

\* list.sort(key=score, reverse=True): stable, descending
RECURSIVE insert_desc(_, _)
insert_desc(sorted, x) ==
    IF sorted = <<>> THEN <<x>>
    ELSE IF Head(sorted).score >= x.score
    THEN <<Head(sorted)>> \o insert_desc(Tail(sorted), x)
    ELSE <<x>> \o sorted

RECURSIVE sort_by_score_desc(_, _)
sort_by_score_desc(results, i) ==
    IF i = 0 THEN <<>>
    ELSE insert_desc(sort_by_score_desc(results, i - 1), results[i])

\* mutant of match_candidates: the candidate skills are accumulated in one
\* list shared by the candidates of the batch
RECURSIVE skills_up_to(_, _)
skills_up_to(rs, i) ==
    IF i = 0 THEN <<>> ELSE skills_up_to(rs, i - 1) \o rs[i].skills

match_candidates_shared_skills(rs, jb, mdl) ==
    sort_by_score_desc(
        [i \in 1..Len(rs) |->
            match_single_candidate([rs[i] EXCEPT !.skills = skills_up_to(rs, i)],
                                   jb, mdl)],
        Len(rs))

\* match_candidates, after its _initialize
match_candidates(rs, jb, mdl) ==
    sort_by_score_desc([i \in 1..Len(rs) |-> match_single_candidate(rs[i], jb, mdl)],
                       Len(rs))

\* _initialize run to its end with no other request in between: a first
\* call loads the model (loaded: the model, or None when the load failed)
initialize_alone(s, loaded) ==
    IF ~s.initialized THEN [model |-> loaded, initialized |-> TRUE] ELSE s

\* ------------------------------------------------- inputs of the scoring
ReqSkillPool == {"Java", "JavaScript", "Go"}
CandSkillPool == {"java", "JavaScript", "Go"}

\* the pairs of skills that reach the semantic tier: neither contains the
\* other
SemKeys ==
    {{Lower(a), Lower(b)} : <<a, b>> \in
        {p \in ReqSkillPool \X CandSkillPool :
            /\ ~IsSubstr(Lower(p[1]), Lower(p[2]))
            /\ ~IsSubstr(Lower(p[2]), Lower(p[1]))}}

\* below the threshold, at it, above it, and a rounding error above 1.0
\* (float32 cos_sim of equal embeddings)
SimValues == {5999, 6000, 7852, 10001}

LoadOutcomes == {None, Some("SentenceTransformer")}

ExpReqPool == {"", "3+", "senior"}
YearsPool == {None, Some(1), Some(3)}
ExperiencePool == {"", "Intern"}
EduReqPool == {"", "Master"}
EducationPool == {"", "M.Tech"}

\* the requirement texts and the years that reach every experience tier
MaxYears == 10     \* most years of experience of a candidate
TierExpReqPool == {"", "10 years", "3+", "2-4 yrs", "0"}
TierYearsPool == {None} \cup {Some(y) : y \in 0..MaxYears}

\* the texts that reach every education level
TierEduReqPool ==
    {"", "PhD", "Doctorate", "Master's degree", "Bachelor", "Diploma",
     "Certification", "Any degree"}
TierEducationPool ==
    {"", "PhD in Physics", "M.Tech", "B.S.", "Diploma", "Certification",
     "B.Tech, M.S."}

JobSpace(maxReq, expReqs, eduReqs) ==
    [required_skills : SeqUpTo(ReqSkillPool, maxReq),
     experience_required : expReqs,
     education_required : eduReqs]

ResumeSpace(id, maxCand, experiences, years, educations) ==
    [id : {id},
     skills : SeqUpTo(CandSkillPool, maxCand),
     experience : experiences,
     years_of_experience : years,
     education : educations]

Services == {"matching", "sentiment"}

\* the requests that reach _initialize of a service
Callers == 1..MaxCallers

\* the candidates of a batch: their profiles, and the jobs they are
\* ranked for (two of the profiles tie when the job asks for no
\* experience and no education)
BatchProfiles ==
    {[skills |-> <<>>, experience |-> "", years_of_experience |-> None,
      education |-> ""],
     [skills |-> <<"java">>, experience |-> "", years_of_experience |-> None,
      education |-> ""],
     [skills |-> <<"java">>, experience |-> "Intern",
      years_of_experience |-> Some(3), education |-> "M.Tech"],
     [skills |-> <<"Go", "JavaScript">>, experience |-> "",
      years_of_experience |-> Some(1), education |-> ""]}

BatchJobs ==
    {[required_skills |-> <<"Java">>, experience_required |-> "",
      education_required |-> ""],
     [required_skills |-> <<"Java", "Go">>, experience_required |-> "3+",
      education_required |-> "Master"]}

\* the resume documents of a batch: resume i has id i
Batches ==
    UNION {{[i \in 1..n |-> [id |-> i] @@ ps[i]] : ps \in [1..n -> BatchProfiles]} :
              n \in 0..MaxResumes}

\* no transcript is being analyzed and no resume text parsed
NoText ==
    /\ transcript_text = ""
    /\ classifier = <<>>
    /\ sentiment_analysis = None
    /\ raw_text = ""
    /\ nlp = <<>>
    /\ skills_database = <<>>
    /\ parsed_data = <<>>

\* The inputs of a call: every pair of skill lists with no requirement
\* text and an empty profile; every combination of the texts with at most
\* one skill on each side; every batch of up to MaxResumes candidates; the
\* experience requirements with every number of years; the education
\* requirements with every education text.
InitScore ==
    /\ NoSockets
    /\ \/ /\ job \in JobSpace(MaxReq, {""}, {""})
          /\ resumes \in {<<r>> : r \in ResumeSpace(1, MaxCand, {""}, {None}, {""})}
       \/ /\ job \in JobSpace(1, ExpReqPool, EduReqPool)
          /\ resumes \in {<<r>> : r \in ResumeSpace(1, 1, ExperiencePool,
                                                    YearsPool, EducationPool)}
       \/ /\ job \in BatchJobs
          /\ resumes \in Batches
       \/ /\ job \in JobSpace(0, TierExpReqPool, {""})
          /\ resumes \in {<<r>> : r \in ResumeSpace(1, 0, ExperiencePool,
                                                    TierYearsPool, {""})}
       \/ /\ job \in JobSpace(0, {""}, TierEduReqPool)
          /\ resumes \in {<<r>> : r \in ResumeSpace(1, 0, {""}, {None},
                                                    TierEducationPool)}
    /\ embedSim \in [SemKeys -> SimValues]
    /\ svc = [s \in Services |-> [model |-> None, initialized |-> FALSE]]
    /\ outcomes = <<>>
    /\ phase = "ready"
    /\ callers = [s \in Services |-> [c \in Callers |-> "idle"]]
    /\ loads = [s \in Services |-> 0]
    /\ jobs = <<>>
    /\ screening_results = <<>>
    /\ interviews = <<>>
    /\ requests = <<>>
    /\ received = 0
    /\ NoText

\* a request that calls matching_service.match_candidates(resumes, job)
MatchCandidates ==
    /\ phase = "ready"
    /\ \E loaded \in LoadOutcomes :
          LET s1 == initialize_alone(svc["matching"], loaded)
          IN /\ svc' = [svc EXCEPT !["matching"] = s1]
             /\ outcomes' = match_candidates(resumes, job, s1.model)
    /\ loads' = [loads EXCEPT !["matching"] =
                    IF svc["matching"].initialized THEN @ ELSE @ + 1]
    /\ phase' = "done"
    /\ UNCHANGED <<socketVars, job, resumes, embedSim, callers, storeVars, textVars>>

NextScore == MatchCandidates

SpecScore == InitScore /\ [][NextScore]_vars

\* ------------------------------------------- lazy loading of the models
\* No request is being served yet; the scoring inputs are not used here.
InitLoad ==
    /\ NoSockets
    /\ job = None
    /\ resumes = <<>>
    /\ embedSim = <<>>
    /\ outcomes = <<>>
    /\ svc = [s \in Services |-> [model |-> None, initialized |-> FALSE]]
    /\ phase = "startup"
    /\ callers = [s \in Services |-> [c \in Callers |-> "idle"]]
    /\ loads = [s \in Services |-> 0]
    /\ jobs = <<>>
    /\ screening_results = <<>>
    /\ interviews = <<>>
    /\ requests = <<>>
    /\ received = 0
    /\ NoText

\* lifespan: the services are initialized one after the other before the
\* first request is served
LifespanPreload ==
    /\ phase = "startup"
    /\ \E lm \in LoadOutcomes, ls \in LoadOutcomes :
          svc' = [s \in Services |->
                    initialize_alone(svc[s], IF s = "matching" THEN lm ELSE ls)]
    /\ loads' = [s \in Services |-> loads[s] + 1]
    /\ phase' = "serving"
    /\ UNCHANGED <<socketVars, job, resumes, embedSim, outcomes, callers, storeVars, textVars>>

\* lifespan: resume_parser._initialize() raised before the two services
\* were reached ("Models will load on first use instead.")
LifespanPreloadSkipped ==
    /\ phase = "startup"
    /\ phase' = "serving"
    /\ UNCHANGED <<socketVars, job, resumes, embedSim, outcomes, svc, callers, loads, storeVars, textVars>>

\* a request enters _initialize of service s: `if not self._initialized`,
\* and when it holds load_model goes to the executor and the request
\* awaits it
InitializeEnter(s, c) ==
    /\ phase = "serving"
    /\ callers[s][c] = "idle"
    /\ IF ~svc[s].initialized
       THEN /\ callers' = [callers EXCEPT ![s][c] = "loading"]
            /\ loads' = [loads EXCEPT ![s] = @ + 1]
       ELSE /\ callers' = [callers EXCEPT ![s][c] = "returned"]
            /\ UNCHANGED loads
    /\ UNCHANGED <<socketVars, job, resumes, embedSim, outcomes, svc, phase, storeVars, textVars>>

\* the executor returns to request c: self.model = <what load_model
\* returned>; self._initialized = True
InitializeLoaded(s, c) ==
    /\ callers[s][c] = "loading"
    /\ \E loaded \in LoadOutcomes :
          svc' = [svc EXCEPT ![s] = [model |-> loaded, initialized |-> TRUE]]
    /\ callers' = [callers EXCEPT ![s][c] = "returned"]
    /\ UNCHANGED <<socketVars, job, resumes, embedSim, outcomes, phase, loads, storeVars, textVars>>

NextLoad ==
    \/ LifespanPreload
    \/ LifespanPreloadSkipped
    \/ \E s \in Services, c \in Callers : InitializeEnter(s, c)
    \/ \E s \in Services, c \in Callers : InitializeLoaded(s, c)

SpecLoad == InitLoad /\ [][NextLoad]_vars

\* ------------------------------------ screening and interview handlers
\* The handlers of routes/jobs.py and routes/interviews.py, one step per
\* await on the database or on a service: other requests run between two
\* steps of a request.  A Beanie document read by get / find_one is a copy
\* in the request; save() writes the whole copy back over the stored
\* document of the same id.
\* Scores rounded to one decimal are in tenths, final_score in hundredths.

\* what the scoring part and the lifespan own
serviceVars == <<job, resumes, embedSim, svc, outcomes, phase, callers, loads>>

JobIds == {1, 2}
InterviewIds == {1}

\* the parsed resumes of the user (resume i has id i)
StoredResumes ==
    << [id |-> 1, skills |-> <<"java">>, experience |-> "",
        years_of_experience |-> None, education |-> "",
        is_parsed |-> TRUE],
       [id |-> 2, skills |-> <<"Go", "JavaScript">>, experience |-> "",
        years_of_experience |-> Some(1), education |-> "",
        is_parsed |-> TRUE] >>

\* the job descriptions created before the run
StoredJobs ==
    [j \in JobIds |->
        [id |-> j,
         required_skills |-> IF j = 1 THEN <<"Java">> ELSE <<"Go">>,
         experience_required |-> "",
         education_required |-> "",
         candidates_screened |-> 0]]

\* an uploaded interview recording: Interview(...) with its defaults
UploadedInterview(k, rid) ==
    [id |-> k, resume_id |-> rid,
     transcript |-> None, is_transcribed |-> FALSE,
     transcription_error |-> None,
     analysis |-> [sentiment_score |-> 0, confidence_score |-> 0],
     is_analyzed |-> FALSE, analysis_error |-> None]

\* the required_skills a PUT /jobs/{id} request may carry
UpdatePool == {<<"Java">>, <<"Java", "Go">>}

\* what transcription_service.transcribe may return
TranscriptPool == {"I am confident."}

\* what sentiment_service.analyze may return (sentiment_score and
\* confidence_score, rounded to one decimal: in tenths)
AnalysisPool ==
    {[sentiment_score |-> 700, confidence_score |-> 900],
     [sentiment_score |-> 455, confidence_score |-> 500]}

\* str(e) of an exception
ErrorText == "error"

\* ScreeningResult(...) as screen_candidates creates it
NewScreeningResult(id, jb, result) ==
    [id |-> id,
     job_id |-> jb.id,
     resume_id |-> result.resume_id,
     overall_score |-> result.score,
     score_breakdown |-> result.score_breakdown,
     skill_matches |-> result.skill_matches,
     matched_skills_count |-> result.matched_skills_count,
     total_required_skills |-> Len(jb.required_skills),
     recommendation |-> result.recommendation,
     interview_id |-> None,
     interview_sentiment_score |-> None,
     interview_confidence_score |-> None,
     final_score |-> None]

\* screen_candidates on an existing result: the six fields it assigns
RescreenedResult(existing, jb, result) ==
    [existing EXCEPT
        !.overall_score = result.score,
        !.score_breakdown = result.score_breakdown,
        !.skill_matches = result.skill_matches,
        !.matched_skills_count = result.matched_skills_count,
        !.total_required_skills = Len(jb.required_skills),
        !.recommendation = result.recommendation]

\* mutant of blend_final_score: the weights 0.4, 0.3, 0.3
blend_final_score_other_weights(overall_score, sentiment_score, confidence_score) ==
    4 * overall_score + 3 * sentiment_score + 3 * confidence_score

\* overall_score * 0.6 + sentiment_score * 0.2 + confidence_score * 0.2,
\* in hundredths, of three scores in tenths
blend_final_score(overall_score, sentiment_score, confidence_score) ==
    6 * overall_score + 2 * sentiment_score + 2 * confidence_score

\* the blend of analyze_interview / process_interview: the four fields it
\* assigns
BlendedResult(screening_result, interview_id, analysis) ==
    [screening_result EXCEPT
        !.interview_id = Some(interview_id),
        !.interview_sentiment_score = Some(analysis.sentiment_score),
        !.interview_confidence_score = Some(analysis.confidence_score),
        !.final_score = Some(blend_final_score(screening_result.overall_score,
                                 analysis.sentiment_score,
                                 analysis.confidence_score))]

\* Document.find_one(...): a copy of the first stored document among the
\* matching ones (given by their positions), or None
find_one(coll, matching) ==
    IF matching # {}
    THEN Some(coll[CHOOSE i \in matching : \A k \in matching : i <= k])
    ELSE None

\* ScreeningResult.find_one(ScreeningResult.job_id == job_id,
\*                          ScreeningResult.resume_id == resume_id)
find_one_by_job_and_resume(coll, job_id, resume_id) ==
    find_one(coll, {i \in DOMAIN coll : /\ coll[i].job_id = job_id
                                        /\ coll[i].resume_id = resume_id})

\* ScreeningResult.find_one(ScreeningResult.resume_id == resume_id)
find_one_by_resume(coll, resume_id) ==
    find_one(coll, {i \in DOMAIN coll : coll[i].resume_id = resume_id})

\* Document.save(): every field of the copy is written over the stored
\* document of that id (and the copy is inserted when there is none)
save(coll, doc) ==
    IF \E i \in DOMAIN coll : coll[i].id = doc.id
    THEN [i \in DOMAIN coll |-> IF coll[i].id = doc.id THEN doc ELSE coll[i]]
    ELSE Append(coll, doc)

\* the id of a document that is inserted: one that no stored document and
\* no copy held by a request has
new_id(coll) ==
    LET held == {Val(requests[r].existing_result).id :
                    r \in {q \in DOMAIN requests :
                              ~IsNone(requests[q].existing_result)}}
                \cup {Val(requests[r].screening_result).id :
                    r \in {q \in DOMAIN requests :
                              ~IsNone(requests[q].screening_result)}}
        ids == {coll[i].id : i \in DOMAIN coll} \cup held \cup {0}
    IN  1 + CHOOSE m \in ids : \A k \in ids : k <= m

\* a request and its local variables
BlankRequest ==
    [kind |-> "", pc |-> "", job |-> None, resumes |-> <<>>,
     results |-> <<>>, idx |-> 0,
     existing_result |-> None, interview |-> None, analysis |-> None,
     screening_result |-> None, resume |-> None]

\* the requests but request r, which has returned
Returned(r) ==
    [i \in 1..(Len(requests) - 1) |->
        IF i < r THEN requests[i] ELSE requests[i + 1]]

\* a request is received and starts with the local variables req
Receive(req) ==
    /\ received < MaxRequests
    /\ Len(requests) < MaxInFlight
    /\ received' = received + 1
    /\ requests' = Append(requests, req)

InitFlow ==
    /\ NoSockets
    /\ job = None
    /\ resumes = StoredResumes
    /\ embedSim = [k \in SemKeys |-> 7852]
    /\ svc = [s \in Services |->
                [model |-> Some("SentenceTransformer"), initialized |-> TRUE]]
    /\ outcomes = <<>>
    /\ phase = "serving"
    /\ callers = [s \in Services |-> [c \in Callers |-> "idle"]]
    /\ loads = [s \in Services |-> 1]
    /\ jobs = StoredJobs
    /\ screening_results = <<>>
    /\ interviews = [k \in InterviewIds |-> UploadedInterview(k, 1)]
    /\ requests = <<>>
    /\ received = 0
    /\ NoText

\* Resume.find(Resume.user_id == ..., Resume.is_parsed == True).to_list()
find_parsed(coll) == SelectSeq(coll, LAMBDA resume : resume.is_parsed)

\* screen_candidates on the resumes it has read, to its first find_one:
\* JobDescription.get, "No resumes found to screen", match_candidates (its
\* _initialize returns at once: the model was loaded at startup)
ScreenBegin(j, rs) ==
    /\ j \in DOMAIN jobs
    /\ rs # <<>>
    /\ Receive(
          [BlankRequest EXCEPT
              !.kind = "screen", !.pc = "find_one",
              !.job = Some(jobs[j]),
              !.resumes = rs,
              !.results = match_candidates(rs, jobs[j], svc["matching"].model),
              !.idx = 1])
    /\ UNCHANGED <<socketVars, serviceVars, textVars, jobs, screening_results, interviews>>

\* screen_candidates without resume_ids: the parsed resumes of the user
ScreenCandidatesBegin(j) == ScreenBegin(j, find_parsed(resumes))

\* existing_result = await ScreeningResult.find_one(job_id, resume_id)
ScreenFindOne(r) ==
    /\ requests[r].kind = "screen"
    /\ requests[r].pc = "find_one"
    /\ requests' = [requests EXCEPT
          ![r].existing_result =
              find_one_by_job_and_resume(screening_results,
                  Val(requests[r].job).id,
                  requests[r].results[requests[r].idx].resume_id),
          ![r].pc = "store"]
    /\ UNCHANGED <<socketVars, serviceVars, textVars, jobs, screening_results, interviews, received>>

\* where the loop of screen_candidates goes after a result is stored: the
\* next result, or job.candidates_screened = len(results) and job.save()
AfterStore(req) ==
    IF req.idx < Len(req.results)
    THEN [req EXCEPT !.idx = @ + 1, !.existing_result = None, !.pc = "find_one"]
    ELSE [req EXCEPT !.existing_result = None, !.pc = "job_save",
                     !.job = Some([Val(req.job) EXCEPT
                                 !.candidates_screened = Len(req.results)])]

\* if existing_result: ... await existing_result.save()
ScreenUpdateExisting(r) ==
    /\ requests[r].kind = "screen"
    /\ requests[r].pc = "store"
    /\ ~IsNone(requests[r].existing_result)
    /\ screening_results' =
          save(screening_results,
               RescreenedResult(Val(requests[r].existing_result),
                                Val(requests[r].job),
                                requests[r].results[requests[r].idx]))
    /\ requests' = [requests EXCEPT ![r] = AfterStore(requests[r])]
    /\ UNCHANGED <<socketVars, serviceVars, textVars, jobs, interviews, received>>

\* else: ... await screening_result.insert()
ScreenInsertNew(r) ==
    /\ requests[r].kind = "screen"
    /\ requests[r].pc = "store"
    /\ IsNone(requests[r].existing_result)
    /\ screening_results' =
          Append(screening_results,
                 NewScreeningResult(new_id(screening_results),
                                    Val(requests[r].job),
                                    requests[r].results[requests[r].idx]))
    /\ requests' = [requests EXCEPT ![r] = AfterStore(requests[r])]
    /\ UNCHANGED <<socketVars, serviceVars, textVars, jobs, interviews, received>>

\* update_job_description with required_skills set, to its save
UpdateJobBegin(j, skills) ==
    /\ Receive(
          [BlankRequest EXCEPT
              !.kind = "update", !.pc = "job_save",
              !.job = Some([jobs[j] EXCEPT !.required_skills = skills])])
    /\ UNCHANGED <<socketVars, serviceVars, textVars, jobs, screening_results, interviews>>

\* await job.save(), of screen_candidates and of update_job_description
JobSave(r) ==
    /\ requests[r].pc = "job_save"
    /\ jobs' = (Val(requests[r].job).id :> Val(requests[r].job)) @@ jobs
    /\ requests' = Returned(r)
    /\ UNCHANGED <<socketVars, serviceVars, textVars, screening_results, interviews, received>>

\* transcribe_interview, to its call of the transcription service
TranscribeInterviewBegin(k) ==
    /\ Receive(
          [BlankRequest EXCEPT
              !.kind = "transcribe", !.pc = "transcribe",
              !.interview = Some(interviews[k])])
    /\ UNCHANGED <<socketVars, serviceVars, textVars, jobs, screening_results, interviews>>

\* process_interview, to its call of the transcription service
ProcessInterviewBegin(k) ==
    /\ Receive(
          [BlankRequest EXCEPT
              !.kind = "process", !.pc = "transcribe",
              !.interview = Some(interviews[k])])
    /\ UNCHANGED <<socketVars, serviceVars, textVars, jobs, screening_results, interviews>>

\* analyze_interview, to its call of the sentiment service; an interview
\* that is not transcribed (or has an empty transcript) is refused
AnalyzeInterviewBegin(k) ==
    /\ interviews[k].is_transcribed
    /\ ~IsNone(interviews[k].transcript)
    /\ Val(interviews[k].transcript) # ""
    /\ Receive(
          [BlankRequest EXCEPT
              !.kind = "analyze", !.pc = "analyze",
              !.interview = Some(interviews[k])])
    /\ UNCHANGED <<socketVars, serviceVars, textVars, jobs, screening_results, interviews>>

\* transcription_service.transcribe returns
TranscribeReturns(r) ==
    /\ requests[r].pc = "transcribe"
    /\ \E transcript \in TranscriptPool :
          requests' = [requests EXCEPT
              ![r].interview =
                  Some([Val(@) EXCEPT
                      !.transcript = Some(transcript),
                      !.is_transcribed = TRUE,
                      !.transcription_error =
                          IF requests[r].kind = "transcribe" THEN None ELSE @]),
              ![r].pc = IF requests[r].kind = "transcribe"
                        THEN "interview_save" ELSE "analyze"]
    /\ UNCHANGED <<socketVars, serviceVars, textVars, jobs, screening_results, interviews, received>>

\* transcription_service.transcribe raises: the except branch, to its
\* interview.save()
TranscribeRaises(r) ==
    /\ requests[r].pc = "transcribe"
    /\ requests' = [requests EXCEPT
          ![r].interview =
              Some(IF requests[r].kind = "transcribe"
                   THEN [Val(@) EXCEPT !.is_transcribed = FALSE,
                                       !.transcription_error = Some(ErrorText)]
                   ELSE [Val(@) EXCEPT !.transcription_error = Some(ErrorText),
                                       !.analysis_error = Some(ErrorText)]),
          ![r].pc = "interview_save"]
    /\ UNCHANGED <<socketVars, serviceVars, textVars, jobs, screening_results, interviews, received>>

\* sentiment_service.analyze returns
AnalyzeReturns(r) ==
    /\ requests[r].pc = "analyze"
    /\ \E analysis \in AnalysisPool :
          requests' = [requests EXCEPT
              ![r].interview =
                  Some([Val(@) EXCEPT
                      !.analysis = analysis,
                      !.is_analyzed = TRUE,
                      !.analysis_error =
                          IF requests[r].kind = "analyze" THEN None ELSE @]),
              ![r].analysis = Some(analysis),
              ![r].pc = "find_one"]
    /\ UNCHANGED <<socketVars, serviceVars, textVars, jobs, screening_results, interviews, received>>

\* sentiment_service.analyze raises: the except branch, to its
\* interview.save()
AnalyzeRaises(r) ==
    /\ requests[r].pc = "analyze"
    /\ requests' = [requests EXCEPT
          ![r].interview =
              Some(IF requests[r].kind = "analyze"
                   THEN [Val(@) EXCEPT !.is_analyzed = FALSE,
                                       !.analysis_error = Some(ErrorText)]
                   ELSE [Val(@) EXCEPT !.transcription_error = Some(ErrorText),
                                       !.analysis_error = Some(ErrorText)]),
          ![r].pc = "interview_save"]
    /\ UNCHANGED <<socketVars, serviceVars, textVars, jobs, screening_results, interviews, received>>

\* screening_result = await ScreeningResult.find_one(resume_id), with a
\* result
BlendFindOne(r) ==
    /\ requests[r].kind \in {"analyze", "process"}
    /\ requests[r].pc = "find_one"
    /\ \E i \in DOMAIN screening_results :
          screening_results[i].resume_id = Val(requests[r].interview).resume_id
    /\ requests' = [requests EXCEPT
          ![r].screening_result =
              find_one_by_resume(screening_results,
                  Val(requests[r].interview).resume_id),
          ![r].pc = "blend"]
    /\ UNCHANGED <<socketVars, serviceVars, textVars, jobs, screening_results, interviews, received>>

\* screening_result = await ScreeningResult.find_one(resume_id), with
\* None: the blend is skipped
BlendFindNone(r) ==
    /\ requests[r].kind \in {"analyze", "process"}
    /\ requests[r].pc = "find_one"
    /\ \A i \in DOMAIN screening_results :
          screening_results[i].resume_id # Val(requests[r].interview).resume_id
    /\ requests' = [requests EXCEPT ![r].pc = "interview_save"]
    /\ UNCHANGED <<socketVars, serviceVars, textVars, jobs, screening_results, interviews, received>>

\* if screening_result: ... await screening_result.save()
BlendSave(r) ==
    /\ requests[r].pc = "blend"
    /\ screening_results' =
          save(screening_results,
               BlendedResult(Val(requests[r].screening_result),
                             Val(requests[r].interview).id,
                             Val(requests[r].analysis)))
    /\ requests' = [requests EXCEPT ![r].pc = "interview_save"]
    /\ UNCHANGED <<socketVars, serviceVars, textVars, jobs, interviews, received>>

\* await interview.save(), of the three interview handlers
InterviewSave(r) ==
    /\ requests[r].pc = "interview_save"
    /\ interviews' = [interviews EXCEPT
          ![Val(requests[r].interview).id] = Val(requests[r].interview)]
    /\ requests' = Returned(r)
    /\ UNCHANGED <<socketVars, serviceVars, textVars, jobs, screening_results, received>>

NextFlow ==
    \/ \E j \in JobIds : ScreenCandidatesBegin(j)
    \/ \E j \in JobIds, skills \in UpdatePool : UpdateJobBegin(j, skills)
    \/ \E k \in InterviewIds : TranscribeInterviewBegin(k)
    \/ \E k \in InterviewIds : AnalyzeInterviewBegin(k)
    \/ \E k \in InterviewIds : ProcessInterviewBegin(k)
    \/ \E r \in DOMAIN requests : ScreenFindOne(r)
    \/ \E r \in DOMAIN requests : ScreenUpdateExisting(r)
    \/ \E r \in DOMAIN requests : ScreenInsertNew(r)
    \/ \E r \in DOMAIN requests : JobSave(r)
    \/ \E r \in DOMAIN requests : TranscribeReturns(r)
    \/ \E r \in DOMAIN requests : TranscribeRaises(r)
    \/ \E r \in DOMAIN requests : AnalyzeReturns(r)
    \/ \E r \in DOMAIN requests : AnalyzeRaises(r)
    \/ \E r \in DOMAIN requests : BlendFindOne(r)
    \/ \E r \in DOMAIN requests : BlendFindNone(r)
    \/ \E r \in DOMAIN requests : BlendSave(r)
    \/ \E r \in DOMAIN requests : InterviewSave(r)

SpecFlow == InitFlow /\ [][NextFlow]_vars

\* ------------------------------------- uploads, reparses and deletions

MaxStored == 3     \* largest id of a resume that requests name

\* the resume_ids a screening request may carry
ResumeIdLists == {<<1>>, <<2, 1>>, <<3>>}

\* what parse_resume returns for the file of an upload
UploadedProfile ==
    [skills |-> <<"Java">>, experience |-> "",
     years_of_experience |-> Some(2), education |-> ""]

\* ParsedResumeData(): the default parsed_data of a Resume
DefaultParsedResumeData ==
    [skills |-> <<>>, experience |-> "",
     years_of_experience |-> None, education |-> ""]

\* Document.get(id): a copy of the stored document of that id, or None
get(coll, id) == find_one(coll, {i \in DOMAIN coll : coll[i].id = id})

\* the resumes screen_candidates reads for resume_ids: those that exist,
\* in the order of the list
listed_resumes(ids) ==
    LET found == SelectSeq(ids, LAMBDA id : ~IsNone(get(resumes, id)))
    IN  [k \in DOMAIN found |-> Val(get(resumes, found[k]))]

\* screen_candidates with resume_ids
ScreenListedBegin(j, ids) == ScreenBegin(j, listed_resumes(ids))

\* upload_resume: parse_resume returns (parsed) or raises, resume.insert()
\* under an id that no resume had before (the ids of the stored resumes
\* and the count of the requests received so far make it new)
UploadResume(parsed) ==
    /\ received < MaxRequests
    /\ received' = received + 1
    /\ resumes' =
          Append(resumes,
                 (IF parsed THEN UploadedProfile ELSE DefaultParsedResumeData)
                 @@ [id |-> Len(StoredResumes) + received',
                     is_parsed |-> parsed])
    /\ UNCHANGED <<socketVars, job, embedSim, svc, outcomes, phase, callers, loads,
                   textVars, jobs, screening_results, interviews, requests>>

\* reparse_resume, to its save: Resume.get, parse_resume returns (parsed)
\* the same profile of the same file, or raises
ReparseResumeBegin(id, parsed) ==
    /\ ~IsNone(get(resumes, id))
    /\ Receive(
          [BlankRequest EXCEPT
              !.kind = "reparse", !.pc = "resume_save",
              !.resume = Some([Val(get(resumes, id)) EXCEPT
                                 !.is_parsed = parsed])])
    /\ UNCHANGED <<socketVars, serviceVars, textVars, jobs, screening_results, interviews>>

\* await resume.save()
ResumeSave(r) ==
    /\ requests[r].pc = "resume_save"
    /\ resumes' = save(resumes, Val(requests[r].resume))
    /\ requests' = Returned(r)
    /\ UNCHANGED <<socketVars, job, embedSim, svc, outcomes, phase, callers, loads,
                   textVars, jobs, screening_results, interviews, received>>

\* delete_job_description, to the deletion of the results
DeleteJobBegin(j) ==
    /\ j \in DOMAIN jobs
    /\ Receive(
          [BlankRequest EXCEPT
              !.kind = "delete_job", !.pc = "delete_results",
              !.job = Some(jobs[j])])
    /\ UNCHANGED <<socketVars, serviceVars, textVars, jobs, screening_results, interviews>>

\* delete_resume, to the deletion of the results
DeleteResumeBegin(id) ==
    /\ ~IsNone(get(resumes, id))
    /\ Receive(
          [BlankRequest EXCEPT
              !.kind = "delete_resume", !.pc = "delete_results",
              !.resume = get(resumes, id)])
    /\ UNCHANGED <<socketVars, serviceVars, textVars, jobs, screening_results, interviews>>

\* await ScreeningResult.find(ScreeningResult.job_id == job_id).delete()
DeleteJobResults(r) ==
    /\ requests[r].kind = "delete_job"
    /\ requests[r].pc = "delete_results"
    /\ screening_results' =
          SelectSeq(screening_results,
                    LAMBDA result : result.job_id # Val(requests[r].job).id)
    /\ requests' = [requests EXCEPT ![r].pc = "delete"]
    /\ UNCHANGED <<socketVars, serviceVars, textVars, jobs, interviews, received>>

\* await ScreeningResult.find(ScreeningResult.resume_id == resume_id,
\*                            ScreeningResult.user_id == ...).delete()
DeleteResumeResults(r) ==
    /\ requests[r].kind = "delete_resume"
    /\ requests[r].pc = "delete_results"
    /\ screening_results' =
          SelectSeq(screening_results,
                    LAMBDA result :
                        result.resume_id # Val(requests[r].resume).id)
    /\ requests' = [requests EXCEPT ![r].pc = "delete"]
    /\ UNCHANGED <<socketVars, serviceVars, textVars, jobs, interviews, received>>

\* await job.delete(), after the broadcast of JOB_DELETED
JobDelete(r) ==
    /\ requests[r].kind = "delete_job"
    /\ requests[r].pc = "delete"
    /\ jobs' = [j \in DOMAIN jobs \ {Val(requests[r].job).id} |-> jobs[j]]
    /\ requests' = Returned(r)
    /\ UNCHANGED <<socketVars, serviceVars, textVars, screening_results, interviews, received>>

\* await resume.delete()
ResumeDelete(r) ==
    /\ requests[r].kind = "delete_resume"
    /\ requests[r].pc = "delete"
    /\ resumes' =
          SelectSeq(resumes,
                    LAMBDA resume : resume.id # Val(requests[r].resume).id)
    /\ requests' = Returned(r)
    /\ UNCHANGED <<socketVars, job, embedSim, svc, outcomes, phase, callers, loads,
                   textVars, jobs, screening_results, interviews, received>>

\* one job and the two parsed resumes are stored, nothing is screened yet
InitStore ==
    /\ NoSockets
    /\ job = None
    /\ resumes = StoredResumes
    /\ embedSim = [k \in SemKeys |-> 7852]
    /\ svc = [s \in Services |->
                [model |-> Some("SentenceTransformer"), initialized |-> TRUE]]
    /\ outcomes = <<>>
    /\ phase = "serving"
    /\ callers = [s \in Services |-> [c \in Callers |-> "idle"]]
    /\ loads = [s \in Services |-> 1]
    /\ jobs = [j \in {1} |-> StoredJobs[j]]
    /\ screening_results = <<>>
    /\ interviews = [k \in InterviewIds |-> UploadedInterview(k, 1)]
    /\ requests = <<>>
    /\ received = 0
    /\ NoText

NextStore ==
    \/ \E j \in JobIds : ScreenCandidatesBegin(j)
    \/ \E j \in JobIds, ids \in ResumeIdLists : ScreenListedBegin(j, ids)
    \/ \E parsed \in BOOLEAN : UploadResume(parsed)
    \/ \E id \in 1..MaxStored, parsed \in BOOLEAN : ReparseResumeBegin(id, parsed)
    \/ \E j \in JobIds : DeleteJobBegin(j)
    \/ \E id \in 1..MaxStored : DeleteResumeBegin(id)
    \/ \E r \in DOMAIN requests : ScreenFindOne(r)
    \/ \E r \in DOMAIN requests : ScreenUpdateExisting(r)
    \/ \E r \in DOMAIN requests : ScreenInsertNew(r)
    \/ \E r \in DOMAIN requests : JobSave(r)
    \/ \E r \in DOMAIN requests : ResumeSave(r)
    \/ \E r \in DOMAIN requests : DeleteJobResults(r)
    \/ \E r \in DOMAIN requests : DeleteResumeResults(r)
    \/ \E r \in DOMAIN requests : JobDelete(r)
    \/ \E r \in DOMAIN requests : ResumeDelete(r)

SpecStore == InitStore /\ [][NextStore]_vars

\* ---------------------------------------------------- ConnectionManager

MaxSockets == 3    \* websockets that are ever opened
MaxSends == 2      \* send_to_user calls in progress at a time
MaxEvents == 2     \* broadcast_event calls

Websockets == 1..MaxSockets

\* final_user_id of websocket_endpoint, per websocket: two websockets of
\* one user and one without a user_id
EndpointUser ==
    [ws \in Websockets |-> IF ws % 3 = 0 THEN "anonymous" ELSE "u1"]

UserIds == {EndpointUser[ws] : ws \in Websockets}

\* how many events were broadcast: the clock is read once per connect and
\* once per event
Events == clock - Cardinality({ws \in Websockets : sockets[ws].pc # "new"})

\* the three registries of the manager, as one value
manager ==
    [active_connections |-> active_connections,
     all_connections |-> all_connections,
     connection_info |-> connection_info]

\* list.remove(x): the list without the first x
list_remove(list, x) ==
    LET at == CHOOSE i \in DOMAIN list :
                  /\ list[i] = x
                  /\ \A k \in 1..(i - 1) : list[k] # x
    IN  [i \in 1..(Len(list) - 1) |->
            IF i < at THEN list[i] ELSE list[i + 1]]

\* dict without key k
Del(dict, k) == [x \in DOMAIN dict \ {k} |-> dict[x]]

\* dict with dict[k] = v
Put(dict, k, v) == [x \in DOMAIN dict \cup {k} |-> IF x = k THEN v ELSE dict[x]]

\* whether x is an item of the list
Has(list, x) == \E i \in DOMAIN list : list[i] = x

\* disconnect that leaves the key of an empty list
disconnect_keeps_empty_list(m, websocket) ==
    LET user_id ==
            IF websocket \in DOMAIN m.connection_info
            THEN m.connection_info[websocket].user_id
            ELSE "anonymous"
    IN  [active_connections |->
             IF /\ user_id \in DOMAIN m.active_connections
                /\ Has(m.active_connections[user_id], websocket)
             THEN [m.active_connections EXCEPT
                      ![user_id] = list_remove(@, websocket)]
             ELSE m.active_connections,
         all_connections |-> m.all_connections \ {websocket},
         connection_info |-> Del(m.connection_info, websocket)]

\* ConnectionManager.disconnect
disconnect(m, websocket) ==
    LET user_id ==
            IF websocket \in DOMAIN m.connection_info
            THEN m.connection_info[websocket].user_id
            ELSE "anonymous"
        removed ==
            IF /\ user_id \in DOMAIN m.active_connections
               /\ Has(m.active_connections[user_id], websocket)
            THEN [m.active_connections EXCEPT
                     ![user_id] = list_remove(@, websocket)]
            ELSE m.active_connections
    IN  [active_connections |->
             IF /\ user_id \in DOMAIN removed
                /\ removed[user_id] = <<>>
             THEN Del(removed, user_id)
             ELSE removed,
         all_connections |-> m.all_connections \ {websocket},
         connection_info |-> Del(m.connection_info, websocket)]

\* for ws in disconnected: self.disconnect(ws)
RECURSIVE disconnect_all(_, _, _)
disconnect_all(m, disconnected, k) ==
    IF k > Len(disconnected)
    THEN m
    ELSE disconnect_all(disconnect(m, disconnected[k]), disconnected, k + 1)

\* a send_to_user call that iterates a list which disconnect has taken out
\* of active_connections keeps that (empty) list object: it never sees the
\* list a later connect makes for the user
Detach(calls, m) ==
    [c \in DOMAIN calls |->
        IF /\ calls[c].user_id \in DOMAIN active_connections
           /\ calls[c].user_id \notin DOMAIN m.active_connections
        THEN [calls[c] EXCEPT !.detached = TRUE]
        ELSE calls[c]]

\* the registries become m
Becomes(m) ==
    /\ active_connections' = m.active_connections
    /\ all_connections' = m.all_connections
    /\ connection_info' = m.connection_info

\* what the other parts of the program do not change here
NoRequests ==
    UNCHANGED <<job, resumes, embedSim, svc, outcomes, phase, callers, loads,
                storeVars, textVars>>

\* websocket.send_json raises on this websocket
SendFails(websocket) ==
    \/ sockets[websocket].broken
    \/ sockets[websocket].pc = "closed"

\* websocket_endpoint to the confirmation of connect: websocket.accept()
\* has returned, the websocket is put into the three registries
Connect(websocket, user_id) ==
    /\ sockets[websocket].pc = "new"
    /\ clock' = clock + 1
    /\ Becomes(
          [active_connections |->
               Put(active_connections, user_id,
                   IF user_id \in DOMAIN active_connections
                   THEN Append(active_connections[user_id], websocket)
                   ELSE <<websocket>>),
           all_connections |-> all_connections \cup {websocket},
           connection_info |->
               Put(connection_info, websocket,
                   [user_id |-> user_id, connected_at |-> clock'])])
    /\ sockets' = [sockets EXCEPT ![websocket].pc = "confirming",
                                  ![websocket].user_id = user_id]
    /\ UNCHANGED sends
    /\ NoRequests

\* send_personal_message of connect returns: the endpoint waits for texts
ConfirmReturns(websocket) ==
    /\ sockets[websocket].pc = "confirming"
    /\ ~SendFails(websocket)
    /\ sockets' = [sockets EXCEPT ![websocket].pc = "receiving"]
    /\ UNCHANGED <<active_connections, all_connections, connection_info,
                   sends, clock>>
    /\ NoRequests

\* send_personal_message of connect: send_json raises, self.disconnect
ConfirmRaises(websocket) ==
    /\ sockets[websocket].pc = "confirming"
    /\ SendFails(websocket)
    /\ Becomes(disconnect(manager, websocket))
    /\ sends' = Detach(sends, disconnect(manager, websocket))
    /\ sockets' = [sockets EXCEPT ![websocket].pc = "receiving"]
    /\ UNCHANGED clock
    /\ NoRequests

\* the peer of the websocket goes away without a close
PeerLost(websocket) ==
    /\ sockets[websocket].pc \in {"confirming", "receiving"}
    /\ ~sockets[websocket].broken
    /\ sockets' = [sockets EXCEPT ![websocket].broken = TRUE]
    /\ UNCHANGED <<active_connections, all_connections, connection_info,
                   sends, clock>>
    /\ NoRequests

\* websocket_endpoint: receive_text raises (WebSocketDisconnect or another
\* exception), manager.disconnect(websocket)
EndpointDisconnect(websocket) ==
    /\ sockets[websocket].pc = "receiving"
    /\ Becomes(disconnect(manager, websocket))
    /\ sends' = Detach(sends, disconnect(manager, websocket))
    /\ sockets' = [sockets EXCEPT ![websocket].pc = "closed"]
    /\ UNCHANGED clock
    /\ NoRequests

\* broadcast_event(event_type, data, user_id): the message with its
\* timestamp, send_to_user to its first send_json (or its return when the
\* user has no list)
BroadcastEvent(user_id) ==
    /\ Events < MaxEvents
    /\ Len(sends) < MaxSends
    /\ clock' = clock + 1
    /\ sends' =
          IF user_id \notin DOMAIN active_connections
          THEN sends
          ELSE Append(sends,
                      [user_id |-> user_id, message |-> clock',
                       websocket |-> active_connections[user_id][1],
                       index |-> 2, disconnected |-> <<>>,
                       detached |-> FALSE])
    /\ UNCHANGED <<active_connections, all_connections, connection_info,
                   sockets>>
    /\ NoRequests

\* the calls but call c, which has returned
ReturnedSend(calls, c) ==
    [i \in 1..(Len(calls) - 1) |-> IF i < c THEN calls[i] ELSE calls[i + 1]]

\* send_to_user after a send_json: the next websocket of the list that is
\* iterated (the list iterator takes the item at its index in the list as
\* it is now), or the clean-up of the disconnected websockets and return
AfterSend(c, disconnected) ==
    LET list == IF sends[c].detached
                THEN <<>>
                ELSE active_connections[sends[c].user_id]
    IN  IF sends[c].index <= Len(list)
        THEN /\ sends' = [sends EXCEPT
                            ![c].websocket = list[sends[c].index],
                            ![c].index = @ + 1,
                            ![c].disconnected = disconnected]
             /\ UNCHANGED <<active_connections, all_connections,
                            connection_info>>
        ELSE /\ Becomes(disconnect_all(manager, disconnected, 1))
             /\ sends' = ReturnedSend(
                            Detach(sends,
                                   disconnect_all(manager, disconnected, 1)),
                            c)

\* await websocket.send_json(message) returns
SendReturns(c) ==
    /\ ~SendFails(sends[c].websocket)
    /\ sockets' = [sockets EXCEPT
          ![sends[c].websocket].received = @ \cup {sends[c].message}]
    /\ AfterSend(c, sends[c].disconnected)
    /\ UNCHANGED clock
    /\ NoRequests

\* await websocket.send_json(message) raises: disconnected.append(websocket)
SendRaises(c) ==
    /\ SendFails(sends[c].websocket)
    /\ AfterSend(c, Append(sends[c].disconnected, sends[c].websocket))
    /\ UNCHANGED <<sockets, clock>>
    /\ NoRequests

\* a new manager, and the websockets that will be opened
InitSockets ==
    /\ job = None
    /\ resumes = <<>>
    /\ embedSim = <<>>
    /\ outcomes = <<>>
    /\ svc = [s \in Services |-> [model |-> None, initialized |-> FALSE]]
    /\ phase = "serving"
    /\ callers = [s \in Services |-> [c \in Callers |-> "idle"]]
    /\ loads = [s \in Services |-> 0]
    /\ jobs = <<>>
    /\ screening_results = <<>>
    /\ interviews = <<>>
    /\ requests = <<>>
    /\ received = 0
    /\ NoText
    /\ active_connections = <<>>
    /\ all_connections = {}
    /\ connection_info = <<>>
    /\ sockets = [ws \in Websockets |->
                     [pc |-> "new", user_id |-> "", broken |-> FALSE,
                      received |-> {}]]
    /\ sends = <<>>
    /\ clock = 0

NextSockets ==
    \/ \E ws \in Websockets : Connect(ws, EndpointUser[ws])
    \/ \E ws \in Websockets : ConfirmReturns(ws)
    \/ \E ws \in Websockets : ConfirmRaises(ws)
    \/ \E ws \in Websockets : PeerLost(ws)
    \/ \E ws \in Websockets : EndpointDisconnect(ws)
    \/ \E user_id \in UserIds : BroadcastEvent(user_id)
    \/ \E c \in DOMAIN sends : SendReturns(c)
    \/ \E c \in DOMAIN sends : SendRaises(c)

SpecSockets == InitSockets /\ [][NextSockets]_vars

\* --------------------------------------------------- regular expressions
\* The patterns of the re module that the services use, as terms, and
\* their matching on a string.  A position is an index into the string; a
\* match from position i ends at the position after its last character.
Lit(str) == [op |-> "lit", str |-> str]          \* the characters of str
OneOf(chars) == [op |-> "set", chars |-> chars]    \* [...], \s, \d
Then(parts) == [op |-> "seq", parts |-> parts]    \* one part after the other
Alt(parts) == [op |-> "alt", parts |-> parts]    \* (?:a|b)
Star(re) == [op |-> "star", of |-> re]           \* x*
Opt(re) == Alt(<<re, Lit("")>>)                  \* x?
Plus(re) == Then(<<re, Star(re)>>)                \* x+
WordB == [op |-> "b"]                            \* \b

\* a-z
LowerLetters == {UpperToLower[c] : c \in DOMAIN UpperToLower}

Letters == DOMAIN UpperToLower \cup LowerLetters

\* \w
WordChars == Letters \cup Digits \cup {"_"}

\* the positions where a match of re that starts at position i of s can end
RECURSIVE Ends(_, _, _)
RECURSIVE SeqEnds(_, _, _, _)
RECURSIVE StarEnds(_, _, _, _)
Ends(re, s, i) ==
    CASE re.op = "lit" ->
           IF /\ i + Len(re.str) - 1 <= Len(s)
              /\ SubSeq(s, i, i + Len(re.str) - 1) = re.str
           THEN {i + Len(re.str)} ELSE {}
      [] re.op = "set" ->
           IF i <= Len(s) /\ Char(s, i) \in re.chars THEN {i + 1} ELSE {}
      [] re.op = "b" ->
           IF (i > 1 /\ Char(s, i - 1) \in WordChars)
                 # (i <= Len(s) /\ Char(s, i) \in WordChars)
           THEN {i} ELSE {}
      [] re.op = "alt" -> UNION {Ends(re.parts[k], s, i) : k \in DOMAIN re.parts}
      [] re.op = "seq" -> SeqEnds(re.parts, s, {i}, 1)
      [] re.op = "star" -> StarEnds(re.of, s, {i}, {i})

\* the ends of the parts from the k-th on, started at the positions `from`
SeqEnds(parts, s, from, k) ==
    IF k > Len(parts) \/ from = {} THEN from
    ELSE SeqEnds(parts, s, UNION {Ends(parts[k], s, j) : j \in from}, k + 1)

\* the ends of any number of repetitions: `reached` so far, `from` the
\* positions reached last
StarEnds(re, s, from, reached) ==
    IF (UNION {Ends(re, s, j) : j \in from}) \subseteq reached THEN reached
    ELSE StarEnds(re, s, (UNION {Ends(re, s, j) : j \in from}) \ reached,
                  reached \cup UNION {Ends(re, s, j) : j \in from})

\* the positions of s where a match of re starts
Starts(re, s) == {i \in 1..(Len(s) + 1) : Ends(re, s, i) # {}}

\* re.search(re, s) finds a match
Search(re, s) == \E i \in 1..(Len(s) + 1) : Ends(re, s, i) # {}

\* where the match re.search returns starts: the leftmost start
FirstStart(re, s) == CHOOSE i \in Starts(re, s) : \A j \in Starts(re, s) : i <= j

\* ------------------------------------------ SentimentAnalysisService
\* str.strip() / str.split() whitespace
Whitespace == {" ", "\t", "\n"}

\* str.strip()
RECURSIVE Strip(_)
Strip(s) ==
    IF s = "" THEN s
    ELSE IF Char(s, 1) \in Whitespace THEN Strip(SubSeq(s, 2, Len(s)))
    ELSE IF Char(s, Len(s)) \in Whitespace THEN Strip(SubSeq(s, 1, Len(s) - 1))
    ELSE s

\* the position of the first separator character of s from position i on
NextOf(s, seps, i) ==
    CHOOSE j \in i..Len(s) :
        Char(s, j) \in seps /\ \A k \in i..(j - 1) : Char(s, k) \notin seps

\* the pieces of s between separator characters, from position i on (cur is
\* the piece read so far): str.split(sep); after a run of separators the
\* pieces in between are empty
RECURSIVE SplitOn(_, _, _, _)
SplitOn(s, seps, i, cur) ==
    IF \A j \in i..Len(s) : Char(s, j) \notin seps
    THEN <<cur \o SubSeq(s, i, Len(s))>>
    ELSE <<cur \o SubSeq(s, i, NextOf(s, seps, i) - 1)>>
            \o SplitOn(s, seps, NextOf(s, seps, i) + 1, "")

\* [s.strip() for s in pieces if s.strip()]
StripAll(pieces) ==
    SelectSeq([i \in DOMAIN pieces |-> Strip(pieces[i])], LAMBDA x : x # "")

\* s without the characters `chars`: str.replace(c, "") for each of them,
\* re.sub(r'\d+', '', s)
RECURSIVE Without(_, _)
Without(s, chars) ==
    IF s = "" THEN s
    ELSE (IF Char(s, 1) \in chars THEN "" ELSE Char(s, 1))
            \o Without(SubSeq(s, 2, Len(s)), chars)

\* str.split()
Words(s) == StripAll(SplitOn(s, Whitespace, 1, ""))

\* str.upper() on one character
UpperChar(c) ==
    IF \E u \in DOMAIN UpperToLower : UpperToLower[u] = c
    THEN CHOOSE u \in DOMAIN UpperToLower : UpperToLower[u] = c
    ELSE c

\* str.upper()
RECURSIVE Upper(_)
Upper(s) ==
    IF s = "" THEN s ELSE UpperChar(Char(s, 1)) \o Upper(SubSeq(s, 2, Len(s)))

\* str.title(): a letter after a letter in lower case, any other letter in
\* upper case (the characters of s from the i-th on)
RECURSIVE TitleFrom(_, _)
TitleFrom(s, i) ==
    IF i > Len(s) THEN ""
    ELSE (IF i > 1 /\ Char(s, i - 1) \in Letters
          THEN LowerChar(Char(s, i)) ELSE UpperChar(Char(s, i)))
            \o TitleFrom(s, i + 1)

\* _split_into_sentences: re.split(r'[.!?]+', text), stripped, without the
\* empty pieces (the empty pieces a run of separators gives here are
\* dropped with them)
split_into_sentences(text) == StripAll(SplitOn(text, {".", "!", "?"}, 1, ""))

positive_words ==
    {"excellent", "great", "amazing", "fantastic", "wonderful", "outstanding",
     "passionate", "excited", "enthusiastic", "confident", "strong", "successful",
     "achieved", "accomplished", "led", "improved", "increased", "delivered",
     "innovative", "creative", "motivated", "dedicated", "committed", "experienced",
     "expertise", "proficient", "skilled", "capable", "effective", "efficient"}

negative_words ==
    {"difficult", "challenging", "struggled", "failed", "problem", "issue",
     "weakness", "concern", "worried", "nervous", "unsure", "unclear",
     "confused", "frustrated", "disappointed", "unfortunately", "however",
     "but", "although", "despite", "lack", "limited", "basic"}

\* sum(1 for word in words if word in text)
CountIn(words, text) == Cardinality({w \in words : IsSubstr(w, text)})

\* s[:n]
Prefix(s, n) == SubSeq(s, 1, Min(Len(s), n))

\* the local variables of _analyze_sentiment before its loop
NoSentence ==
    [positive_count |-> 0, negative_count |-> 0, neutral_count |-> 0,
     positive_phrases |-> <<>>, negative_phrases |-> <<>>]

\* the try block of the loop of _analyze_sentiment on the answer `result`
\* of the pipeline
count_by_model(acc, sentence, result) ==
    IF result.label = "POSITIVE"
    THEN [acc EXCEPT !.positive_count = @ + 1,
                     !.positive_phrases =
                         IF result.score > 8000
                         THEN Append(@, Prefix(sentence, 100)) ELSE @]
    ELSE [acc EXCEPT !.negative_count = @ + 1,
                     !.negative_phrases =
                         IF result.score > 8000
                         THEN Append(@, Prefix(sentence, 100)) ELSE @]

\* the keyword fallback of the loop of _analyze_sentiment
count_by_keywords(acc, sentence, pos_words, neg_words) ==
    IF pos_words > neg_words
    THEN [acc EXCEPT !.positive_count = @ + 1,
                     !.positive_phrases =
                         IF pos_words >= 2
                         THEN Append(@, Prefix(sentence, 100)) ELSE @]
    ELSE IF neg_words > pos_words
    THEN [acc EXCEPT !.negative_count = @ + 1,
                     !.negative_phrases =
                         IF neg_words >= 2
                         THEN Append(@, Prefix(sentence, 100)) ELSE @]
    ELSE [acc EXCEPT !.neutral_count = @ + 1]

\* mutant of count_sentence: an exception of the pipeline is not followed
\* by the keyword fallback (the sentence is not counted)
count_sentence_no_fallback(acc, sentence, analyzer, answers) ==
    IF ~IsNone(analyzer)
    THEN (IF ~answers[Prefix(sentence, 512)].raises
          THEN count_by_model(acc, sentence, answers[Prefix(sentence, 512)])
          ELSE acc)
    ELSE count_by_keywords(acc, sentence,
             CountIn(positive_words, Lower(sentence)),
             CountIn(negative_words, Lower(sentence)))

\* one pass of the loop of _analyze_sentiment: the pipeline when it is
\* loaded and its call does not raise, else the keyword fallback
count_sentence(acc, sentence, analyzer, answers) ==
    IF ~IsNone(analyzer) /\ ~answers[Prefix(sentence, 512)].raises
    THEN count_by_model(acc, sentence, answers[Prefix(sentence, 512)])
    ELSE count_by_keywords(acc, sentence,
             CountIn(positive_words, Lower(sentence)),
             CountIn(negative_words, Lower(sentence)))

\* the loop `for sentence in sentences`, from index i on
RECURSIVE sentiment_loop(_, _, _, _, _)
sentiment_loop(sentences, analyzer, answers, i, acc) ==
    IF i > Len(sentences) THEN acc
    ELSE sentiment_loop(sentences, analyzer, answers, i + 1,
             count_sentence(acc, sentences[i], analyzer, answers))

\* total = positive_count + negative_count + neutral_count
total_of(acc) == acc.positive_count + acc.negative_count + acc.neutral_count

\* mutant of sentiment_totals: a neutral sentence weighs nothing
sentiment_totals_neutral_zero(acc) ==
    IF total_of(acc) = 0
    THEN [acc EXCEPT !.positive_phrases = <<>>, !.negative_phrases = <<>>]
            @@ [sentiment_score |-> Rat(50, 1), overall_sentiment |-> "neutral"]
    ELSE acc @@
         [sentiment_score |-> Rat(acc.positive_count * 100, total_of(acc)),
          overall_sentiment |->
              IF acc.positive_count > acc.negative_count * 2 THEN "positive"
              ELSE IF acc.negative_count > acc.positive_count * 2 THEN "negative"
              ELSE "neutral"]

\* the end of _analyze_sentiment: the score and the overall sentiment, with
\* the counters they were computed from
sentiment_totals(acc) ==
    IF total_of(acc) = 0
    THEN [acc EXCEPT !.positive_phrases = <<>>, !.negative_phrases = <<>>]
            @@ [sentiment_score |-> Rat(50, 1), overall_sentiment |-> "neutral"]
    ELSE acc @@
         [sentiment_score |->
              Rat(acc.positive_count * 100 + acc.neutral_count * 50, total_of(acc)),
          overall_sentiment |->
              IF acc.positive_count > acc.negative_count * 2 THEN "positive"
              ELSE IF acc.negative_count > acc.positive_count * 2 THEN "negative"
              ELSE "neutral"]

\* _analyze_sentiment
analyze_sentiment(sentences, analyzer, answers) ==
    sentiment_totals(sentiment_loop(sentences, analyzer, answers, 1, NoSentence))

\* self.confidence_indicators
confidence_indicators ==
    [high |-> {"i am confident", "i believe", "i'm certain", "definitely",
               "absolutely", "i'm sure", "without doubt", "i know", "clearly"},
     medium |-> {"i think", "probably", "likely", "should be", "could be",
                 "i would say", "in my opinion", "i feel"},
     low |-> {"maybe", "perhaps", "i'm not sure", "i don't know", "possibly",
              "i guess", "sort of", "kind of", "might be"}]

\* sum(len(s.split()) for s in sentences)
RECURSIVE words_in(_)
words_in(sentences) ==
    IF sentences = <<>> THEN 0
    ELSE Len(Words(Head(sentences))) + words_in(Tail(sentences))

\* r + k and max(k, r) on rationals
RatPlus(r, k) == Rat(r.num + k * r.den, r.den)
RatMax(r, k) == IF RatLe(r, k) THEN Rat(k * r.den, r.den) ELSE r

\* _analyze_confidence after its `if total == 0`: the weighted score of the
\* counts, adjusted by the average sentence length (words / n, 0 with no
\* sentence) and clamped
weighted_confidence(high_count, medium_count, low_count, words, n) ==
    LET confidence_score ==
            Rat(high_count * 100 + medium_count * 60 + low_count * 30,
                high_count + medium_count + low_count)
    IN RatMin(RatMax(IF n > 0 /\ words > 15 * n
                     THEN RatMin(RatPlus(confidence_score, 10), 100)
                     ELSE IF n = 0 \/ words < 8 * n
                     THEN RatMax(RatPlus(confidence_score, -10), 0)
                     ELSE confidence_score,
                     0),
              100)

\* _analyze_confidence
analyze_confidence(transcript) ==
    IF /\ CountIn(confidence_indicators.high, Lower(transcript)) = 0
       /\ CountIn(confidence_indicators.medium, Lower(transcript)) = 0
       /\ CountIn(confidence_indicators.low, Lower(transcript)) = 0
    THEN Rat(60, 1)
    ELSE weighted_confidence(CountIn(confidence_indicators.high, Lower(transcript)),
                             CountIn(confidence_indicators.medium, Lower(transcript)),
                             CountIn(confidence_indicators.low, Lower(transcript)),
                             words_in(split_into_sentences(transcript)),
                             Len(split_into_sentences(transcript)))

\* _extract_key_topics: topic_keywords
topic_keywords ==
    {"experience", "project", "team", "development", "software", "programming",
     "leadership", "management", "skills", "technology", "solution", "problem",
     "communication", "collaboration", "innovation", "learning", "growth",
     "achievement", "success", "challenge", "opportunity", "responsibility"}

\* re.sub(r'[^a-z]', '', word)
clean_word(word) == Without(word, {Char(word, i) : i \in 1..Len(word)} \ LowerLetters)

\* _extract_key_topics: the loop over words from the k-th on; the test
\* `clean_word not in found_topics` compares the cleaned word with the
\* entries of the list as they were appended
RECURSIVE found_topics(_, _, _)
found_topics(words, k, found) ==
    IF k > Len(words) THEN found
    ELSE found_topics(words, k + 1,
            IF /\ clean_word(words[k]) \in topic_keywords
               /\ \A j \in DOMAIN found : found[j] # clean_word(words[k])
            THEN Append(found, TitleFrom(clean_word(words[k]), 1))
            ELSE found)

\* _extract_key_topics
extract_key_topics(transcript) == found_topics(Words(Lower(transcript)), 1, <<>>)

\* SentimentAnalysis(...): round(sentiment_score, 1), the first five
\* phrases; beside them the sentences, the counters and the unrounded score
\* of _analyze_sentiment
sentiment_fields(r, sentences) ==
    [r EXCEPT !.sentiment_score = Round1(@),
              !.positive_phrases = Prefix(@, 5),
              !.negative_phrases = Prefix(@, 5)]
      @@ [unrounded_sentiment_score |-> r.sentiment_score,
          sentences |-> sentences]

\* analyze, after its _initialize: the sentences, _analyze_sentiment,
\* _analyze_confidence, _extract_key_topics and the fields of
\* SentimentAnalysis made of their results (the scores in tenths); the
\* counters and the unrounded scores are kept beside them.  clarity_score,
\* enthusiasm_score and professionalism_score are left out.
analyze(transcript, analyzer, answers) ==
    sentiment_fields(
        analyze_sentiment(split_into_sentences(transcript), analyzer, answers),
        split_into_sentences(transcript))
      @@ [confidence_score |-> Round1(analyze_confidence(transcript)),
          unrounded_confidence_score |-> analyze_confidence(transcript),
          key_topics |-> Prefix(extract_key_topics(transcript), 10)]

\* ------------------------------------------------ inputs of the analysis
MaxSentences == 3   \* most sentences of a transcript

\* what a candidate may say, with the punctuation that ends it
Utterances == {"Great team! ", "A problem... ", "Hello? ", "I failed. "}

RECURSIVE Concat(_)
Concat(ss) == IF ss = <<>> THEN "" ELSE Head(ss) \o Concat(Tail(ss))

Transcripts(n) == {Concat(us) : us \in SeqUpTo(Utterances, n)}

\* what a candidate may say with more or less confidence: markers of the
\* three kinds, and sentences of 16, 9 and fewer words
ConfidenceUtterances ==
    {"Definitely. ", "I think so. ", "Maybe. ", "Yes. ",
     "I know the team and the product very well. ",
     "We built and shipped the new billing system for our three largest customers in one quarter. ",
     "I believe we built and shipped the new billing system for our largest customers in one quarter. "}

MaxSaid == 2   \* most utterances of such a transcript

ConfidenceTranscripts == {Concat(us) : us \in SeqUpTo(ConfidenceUtterances, MaxSaid)}

\* the sentences of the transcripts
SentencePool == UNION {{split_into_sentences(u)[1]} : u \in Utterances}

\* what the pipeline answers on a sentence: a label with a score (in
\* 1/10000), or an exception
PipelineAnswers ==
    {[raises |-> FALSE, label |-> "POSITIVE", score |-> 9987],
     [raises |-> FALSE, label |-> "NEGATIVE", score |-> 6514],
     [raises |-> TRUE, label |-> "", score |-> 0]}

InitSentiment ==
    /\ NoSockets
    /\ job = None
    /\ resumes = <<>>
    /\ embedSim = <<>>
    /\ outcomes = <<>>
    /\ svc = [s \in Services |-> [model |-> None, initialized |-> FALSE]]
    /\ phase = "serving"
    /\ callers = [s \in Services |-> [c \in Callers |-> "idle"]]
    /\ loads = [s \in Services |-> 0]
    /\ jobs = <<>>
    /\ screening_results = <<>>
    /\ interviews = <<>>
    /\ requests = <<>>
    /\ received = 0
    /\ \/ /\ transcript_text \in Transcripts(MaxSentences)
          /\ classifier \in [SentencePool -> PipelineAnswers]
       \/ /\ transcript_text \in ConfidenceTranscripts
          /\ \E answer \in PipelineAnswers :
                classifier = [s \in UNION {{split_into_sentences(u)[1]} :
                                              u \in ConfidenceUtterances} |-> answer]
    /\ sentiment_analysis = None
    /\ raw_text = ""
    /\ nlp = <<>>
    /\ skills_database = <<>>
    /\ parsed_data = <<>>

\* a request that calls sentiment_service.analyze(transcript)
Analyze ==
    /\ IsNone(sentiment_analysis)
    /\ \E loaded \in LoadOutcomes :
          /\ svc' = [svc EXCEPT !["sentiment"] = initialize_alone(@, loaded)]
          /\ sentiment_analysis' =
                Some(analyze(transcript_text,
                             initialize_alone(svc["sentiment"], loaded).model,
                             classifier))
    /\ loads' = [loads EXCEPT !["sentiment"] =
                    IF svc["sentiment"].initialized THEN @ ELSE @ + 1]
    /\ UNCHANGED <<socketVars, job, resumes, embedSim, outcomes, phase, callers, storeVars,
                   transcript_text, classifier, raw_text, nlp, skills_database,
                   parsed_data>>

NextSentiment == Analyze

SpecSentiment == InitSentiment /\ [][NextSentiment]_vars

\* ------------------------------------------------ ResumeParserService
\* \s and \d
WS == OneOf(Whitespace)
Digit == OneOf(Digits)

\* \b(?:a|b|...)\b for the literal alternatives `words`
AnyWord(words) ==
    Then(<<WordB, Alt([i \in DOMAIN words |-> Lit(words[i])]), WordB>>)

\* \bno\s+(?:prior\s+)?(?:work\s+)?experience\b
no_experience ==
    Then(<<WordB, Lit("no"), Plus(WS), Opt(Then(<<Lit("prior"), Plus(WS)>>)),
           Opt(Then(<<Lit("work"), Plus(WS)>>)), Lit("experience"), WordB>>)

\* _is_entry_level_resume: student_indicators
student_indicators ==
    << Then(<<WordB,
              Alt(<<Lit("freshman"), Lit("sophomore"), Lit("junior"), Lit("senior")>>),
              Plus(WS), Alt(<<Lit("student"), Lit("year")>>), WordB>>),
       AnyWord(<<"pursuing", "currently pursuing", "expected graduation">>),
       AnyWord(<<"recent graduate", "fresh graduate", "new graduate">>),
       Then(<<WordB, Lit("student"), Plus(WS), Lit("at"), WordB>>),
       Then(<<WordB, Alt(<<Lit("gpa"), Lit("cgpa")>>),
              Star(OneOf(Whitespace \cup {":"})), OneOf({"3", "4"}), Lit("."), Digit>>),
       no_experience,
       Then(<<WordB, Alt(<<Lit("seeking"), Lit("looking for")>>), Plus(WS),
              Alt(<<Lit("internship"),
                    Then(<<Lit("entry"), OneOf({"-", " "}), Lit("level")>>),
                    Lit("first")>>),
              WordB>>),
       AnyWord(<<"eager to learn", "willing to learn", "quick learner">>) >>

\* _is_entry_level_resume: work_terms (the second is searched, as the
\* others, in the lowercased text)
work_terms ==
    << AnyWord(<<"employed", "hired", "worked at", "position at">>),
       AnyWord(<<"Inc", "LLC", "Ltd", "Corp">>),
       AnyWord(<<"salary", "compensation", "promoted">>),
       Then(<<WordB, Lit("year"), Opt(Lit("s")), Plus(WS),
              Opt(Then(<<Lit("of"), Plus(WS)>>)), Lit("experience"), WordB>>) >>

\* _is_entry_level_resume
is_entry_level_resume(text) ==
    /\ Cardinality({k \in DOMAIN student_indicators :
                       Search(student_indicators[k], Lower(text))}) >= 2
    /\ ~ \E k \in DOMAIN work_terms : Search(work_terms[k], Lower(text))

\* (\d+)\+?\s*years?
number_of_years ==
    Then(<<Plus(Digit), Opt(Lit("+")), Star(WS), Lit("year"), Opt(Lit("s"))>>)

\* _estimate_experience_years: patterns; `group` is what the pattern has
\* before its group (\d+)
patterns ==
    << [group |-> Lit(""),
        re |-> Then(<<number_of_years, Star(WS),
                      Opt(Then(<<Lit("of"), Star(WS)>>)), Lit("experience")>>)],
       [group |-> Then(<<Lit("experience"), Star(OneOf(Whitespace \cup {":"}))>>),
        re |-> Then(<<Lit("experience"), Star(OneOf(Whitespace \cup {":"})),
                      number_of_years>>)],
       [group |-> Lit(""),
        re |-> Then(<<number_of_years, Star(WS), Alt(<<Lit("in"), Lit("of")>>),
                      Star(WS),
                      Alt(<<Lit("software"), Lit("development"),
                            Lit("programming")>>)>>)] >>

\* _estimate_experience_years: no_exp_patterns
no_exp_patterns ==
    << no_experience,
       AnyWord(<<"fresher">>),
       AnyWord(<<"fresh graduate">>),
       Then(<<WordB, Lit("entry"), OneOf({"-", " "}), Lit("level"), WordB>>) >>

\* float(match.group(1)) of re.search(pattern, text, re.IGNORECASE): the
\* digits of the leftmost match (the patterns are in lower case, so the
\* search ignoring case is the search in the lowercased text); they start
\* where the longest match of what precedes the group ends (a shorter one is
\* followed by one of the characters it repeats, not by a digit)
group_1(pattern, text) ==
    LET start == FirstStart(pattern.re, Lower(text))
        ends == Ends(pattern.group, Lower(text), start)
    IN DigitRun(text, CHOOSE g \in ends : \A h \in ends : h <= g, 0)

\* _estimate_experience_years, "Look for explicit mentions": None, or
\* Some(years) of the first pattern that matches
explicit_years(text) ==
    IF \E k \in DOMAIN patterns : Search(patterns[k].re, Lower(text))
    THEN LET k == CHOOSE j \in DOMAIN patterns :
                     /\ Search(patterns[j].re, Lower(text))
                     /\ \A h \in 1..(j - 1) : ~ Search(patterns[h].re, Lower(text))
         IN Some(group_1(patterns[k], text))
    ELSE None

\* _estimate_experience_years, "no experience" indicators
no_experience_indicated(text) ==
    \E k \in DOMAIN no_exp_patterns : Search(no_exp_patterns[k], Lower(text))

\* _estimate_experience_years: None, or Some(years)
estimate_experience_years(text) ==
    IF is_entry_level_resume(text) THEN Some(0)
    ELSE IF ~ IsNone(explicit_years(text)) THEN explicit_years(text)
    ELSE IF no_experience_indicated(text) THEN Some(0)
    ELSE None

\* str.isalpha()
IsAlpha(s) == s # "" /\ \A i \in 1..Len(s) : Char(s, i) \in Letters

\* sep.join(ss)
RECURSIVE Join(_, _)
Join(ss, sep) ==
    IF ss = <<>> THEN ""
    ELSE IF Len(ss) = 1 THEN ss[1]
    ELSE ss[1] \o sep \o Join(Tail(ss), sep)

\* str.capitalize()
Capitalize(s) ==
    IF s = "" THEN s ELSE UpperChar(Char(s, 1)) \o Lower(SubSeq(s, 2, Len(s)))

\* _is_valid_name: false_positives
false_positives ==
    {"resume", "cv", "curriculum vitae", "profile", "summary",
     "objective", "experience", "education", "skills", "contact",
     "references", "phone", "email", "address", "linkedin", "github",
     "university", "college", "school", "institute", "inc", "llc", "ltd",
     "company", "corporation", "technologies", "solutions", "services",
     "january", "february", "march", "april", "may", "june", "july",
     "august", "september", "october", "november", "december",
     "project", "manager", "developer", "engineer", "analyst", "intern"}

\* _is_name_word
is_name_word(word) == IsAlpha(Without(word, {"-", "'", "."}))

\* _is_valid_name
is_valid_name(name) ==
    /\ Len(name) >= 2
    /\ Len(Words(name)) \in 1..5
    /\ Lower(name) \notin false_positives
    /\ \A k \in DOMAIN Words(name) : Lower(Words(name)[k]) \notin false_positives
    /\ \A k \in DOMAIN Words(name) : is_name_word(Words(name)[k])

\* _is_section_header: headers
headers ==
    {"resume", "cv", "curriculum vitae", "profile", "summary", "objective",
     "experience", "work experience", "professional experience", "employment",
     "education", "academic", "qualifications", "skills", "technical skills",
     "projects", "certifications", "achievements", "contact", "references"}

\* str.rstrip(':')
RECURSIVE RStripColon(_)
RStripColon(s) ==
    IF s # "" /\ Char(s, Len(s)) = ":" THEN RStripColon(SubSeq(s, 1, Len(s) - 1))
    ELSE s

\* _is_section_header
is_section_header(line) == RStripColon(Strip(Lower(line))) \in headers

\* _extract_email: email_pattern,
\* \b[A-Za-z0-9._%+-]+@[A-Za-z0-9.-]+\.[A-Z|a-z]{2,}\b
email_pattern ==
    Then(<<WordB, Plus(OneOf(Letters \cup Digits \cup {".", "_", "%", "+", "-"})),
           Lit("@"), Plus(OneOf(Letters \cup Digits \cup {".", "-"})), Lit("."),
           OneOf(Letters \cup {"|"}), Plus(OneOf(Letters \cup {"|"})), WordB>>)

\* _extract_email: group(0) of the leftmost match, or "".  The match takes
\* the longest domain and after it the longest ending the pattern allows,
\* which is the match that ends last.
extract_email(text) ==
    IF ~ Search(email_pattern, text) THEN ""
    ELSE LET i == FirstStart(email_pattern, text)
             ends == Ends(email_pattern, text, i)
         IN SubSeq(text, i, (CHOOSE e \in ends : \A f \in ends : f <= e) - 1)

\* _extract_name_from_email: parts, the pieces of the local part without
\* its digits that have two letters or more and only letters
email_parts(email) ==
    SelectSeq(SplitOn(Without(Head(SplitOn(email, {"@"}, 1, "")), Digits),
                      {".", "_", "-"}, 1, ""),
              LAMBDA part : Len(part) >= 2 /\ IsAlpha(part))

\* _extract_name_from_email
extract_name_from_email(email) ==
    IF email = "" \/ ~ IsSubstr("@", email) THEN ""
    ELSE IF Len(email_parts(email)) >= 2
    THEN Capitalize(email_parts(email)[1]) \o " " \o Capitalize(email_parts(email)[2])
    ELSE IF Len(email_parts(email)) = 1 /\ Len(email_parts(email)[1]) >= 3
    THEN Capitalize(email_parts(email)[1])
    ELSE ""

\* What the spaCy model gives for a text: doc.ents, here its entities with
\* the label PERSON (the only ones _extract_name reads).  The model's
\* answer is not computed: `tagged` is the set of lines it labels as a
\* person, and the entities of a text are its lines among them, in the
\* order of the text, each with the offset start_char of the line (the
\* lines from the k-th on, the k-th starting at offset `at`).
RECURSIVE ents_from(_, _, _, _)
ents_from(tagged, lines, k, at) ==
    IF k > Len(lines) THEN <<>>
    ELSE (IF lines[k] \in tagged
          THEN <<[label_ |-> "PERSON", text |-> lines[k], start_char |-> at]>>
          ELSE <<>>)
            \o ents_from(tagged, lines, k + 1, at + Len(lines[k]) + 1)

\* self.nlp(text).ents
ents(tagged, text) == ents_from(tagged, SplitOn(text, {"\n"}, 1, ""), 1, 0)

\* _extract_name: lines
lines_of(text) == SplitOn(Strip(text), {"\n"}, 1, "")

\* _extract_name, Strategy 1: person_entities, the valid names among the
\* persons of the first five lines
person_entities(tagged, text) ==
    LET first_lines_text == Join(SubSeq(lines_of(text), 1, Min(5, Len(lines_of(text)))), "\n")
    IN SelectSeq([k \in DOMAIN ents(tagged, first_lines_text) |->
                     Strip(ents(tagged, first_lines_text)[k].text)],
                 is_valid_name)

\* _extract_name, Strategy 2: the condition under which the loop over
\* lines[:3] returns the (stripped) line
looks_like_a_name(line) ==
    /\ line # ""
    /\ ~ is_section_header(line)
    /\ ~ IsSubstr("@", line)
    /\ \A i \in 1..Len(line) : Char(line, i) \notin Digits
    /\ Len(Words(line)) \in 2..4
    /\ \A k \in DOMAIN Words(line) : is_name_word(Words(line)[k])

\* _extract_name, Strategy 2: the lines among the first three that the
\* loop would return, stripped, in their order
name_lines(text) ==
    SelectSeq([k \in 1..Min(3, Len(lines_of(text))) |-> Strip(lines_of(text)[k])],
              looks_like_a_name)

\* _extract_name, Strategy 4: the valid names of the persons of the whole
\* document that start in its first 500 characters
early_persons(tagged, text) ==
    SelectSeq([k \in DOMAIN SelectSeq(ents(tagged, text), LAMBDA ent : ent.start_char < 500) |->
                  Strip(SelectSeq(ents(tagged, text), LAMBDA ent : ent.start_char < 500)[k].text)],
              is_valid_name)

\* _extract_name
extract_name(tagged, text) ==
    IF person_entities(tagged, text) # <<>> THEN person_entities(tagged, text)[1]
    ELSE IF name_lines(text) # <<>> THEN name_lines(text)[1]
    ELSE IF extract_name_from_email(extract_email(text)) # ""
    THEN extract_name_from_email(extract_email(text))
    ELSE IF early_persons(tagged, text) # <<>> THEN early_persons(tagged, text)[1]
    ELSE "Unknown"

\* _extract_skills: found_skills, for the skills from the k-th on in the
\* order in which the process iterates over the set skills_database
RECURSIVE found_skills(_, _, _)
found_skills(database, text_lower, k) ==
    IF k > Len(database) THEN <<>>
    ELSE (IF Search(Then(<<WordB, Lit(database[k]), WordB>>), text_lower)
          THEN <<IF Len(database[k]) > 2 THEN TitleFrom(database[k], 1)
                 ELSE Upper(database[k])>>
          ELSE <<>>)
            \o found_skills(database, text_lower, k + 1)

\* _extract_skills: unique_skills, the skills from the k-th on that are not
\* in lower case among `seen`
RECURSIVE unique_skills(_, _, _)
unique_skills(found, k, seen) ==
    IF k > Len(found) THEN <<>>
    ELSE IF Lower(found[k]) \in seen THEN unique_skills(found, k + 1, seen)
    ELSE <<found[k]>> \o unique_skills(found, k + 1, seen \cup {Lower(found[k])})

\* the first n elements, seq[:n]
FirstN(seq, n) == SubSeq(seq, 1, Min(n, Len(seq)))

\* _extract_skills without the limit of 20
extract_skills_unlimited(database, text) ==
    unique_skills(found_skills(database, Lower(text), 1), 1, {})

\* _extract_skills
extract_skills(database, text) ==
    FirstN(unique_skills(found_skills(database, Lower(text), 1), 1, {}), 20)

\* parse_resume: the ParsedResumeData of a text, with the fields name,
\* email, skills and years_of_experience.  phone, education, experience,
\* linkedin and github are searches of raw_text alone, as email is, and are
\* left out.
parse_resume(tagged, database, text) ==
    [name |-> extract_name(tagged, text),
     email |-> extract_email(text),
     skills |-> extract_skills(database, text),
     years_of_experience |-> estimate_experience_years(text)]

\* ---------------------------------------------- inputs of the parsing
\* The entries of skills_database that the texts below mention; no other
\* entry matches any of them.
SkillLexicon ==
    <<"go", "r", "php", "git", "aws", "gcp", "ios", "api", "css", "nlp", "k8s",
      "koa", "sass", "less", "vue", "java", "rust", "ruby", "perl", "bash",
      "hapi", "html">>

\* Orders in which a process may iterate over the set: the order depends
\* on the hashes of the strings, which differ from one process to the next.
SkillOrders ==
    { SkillLexicon,
      [k \in DOMAIN SkillLexicon |-> SkillLexicon[Len(SkillLexicon) + 1 - k]] }

MaxParses == 2
MaxLines == 3

\* the texts of one to n lines from `pool`
TextsOf(pool, n) ==
    {Join(ls, "\n") : ls \in UNION {[1..k -> pool] : k \in 1..n}}

ExperienceLines ==
    {"Student at MIT", "quick learner", "Experience: 2 years",
     "5 years of experience", "fresher"}

NameLines == {"RESUME", "John Smith", "jo.roe@x.io", "Data Engineer"}

\* a text whose last line is the sixth
Below(text) == text \o "\n\n\n\n\n" \o "Jane Doe"

PersonLines == {"John Smith", "Data Engineer", "Jane Doe"}

SkillTexts ==
    {Join(FirstN(SkillLexicon, n), ", ") : n \in {3, 20, 21, 22}}
        \cup {"Java, JAVA and java"}

\* ------------------------------------------------------------ parsing
\* One process after the other parses the text of one resume file.
InitParse ==
    /\ NoSockets
    /\ \/ /\ raw_text \in SkillTexts
          /\ nlp = {}
          /\ skills_database \in SkillOrders
       \/ /\ raw_text \in TextsOf(ExperienceLines, MaxLines)
          /\ nlp = {}
          /\ skills_database = SkillLexicon
       \/ /\ raw_text \in TextsOf(NameLines, MaxLines)
                           \cup {Below(text) : text \in TextsOf(NameLines, 1)}
          /\ nlp \in SUBSET PersonLines
          /\ skills_database = SkillLexicon
    /\ parsed_data = <<>>
    /\ transcript_text = ""
    /\ classifier = <<>>
    /\ sentiment_analysis = None
    /\ job = None
    /\ resumes = <<>>
    /\ embedSim = <<>>
    /\ outcomes = <<>>
    /\ svc = [s \in Services |-> [model |-> None, initialized |-> FALSE]]
    /\ phase = "serving"
    /\ callers = [s \in Services |-> [c \in Callers |-> "idle"]]
    /\ loads = [s \in Services |-> 0]
    /\ jobs = <<>>
    /\ screening_results = <<>>
    /\ interviews = <<>>
    /\ requests = <<>>
    /\ received = 0

\* parse_resume on the text (not empty) of the file, the spaCy model loaded
ParseResume ==
    /\ Len(parsed_data) < MaxParses
    /\ parsed_data' = Append(parsed_data, parse_resume(nlp, skills_database, raw_text))
    /\ UNCHANGED <<socketVars, serviceVars, storeVars, transcript_text, classifier,
                   sentiment_analysis, raw_text, nlp, skills_database>>

\* The process ends and another starts: ResumeParserService.__init__
\* builds the set again, with the hashes of the new process.
Restart ==
    /\ skills_database' \in SkillOrders \ {skills_database}
    /\ UNCHANGED <<socketVars, serviceVars, storeVars, transcript_text, classifier,
                   sentiment_analysis, raw_text, nlp, parsed_data>>

NextParse == ParseResume \/ Restart

SpecParse == InitParse /\ [][NextParse]_vars

\* ------------------------------------- scoring and analysis, no model
\* A scoring request and an analysis request on services whose model may
\* have failed to load and whose model calls may raise.
InitFallback ==
    /\ NoSockets
    /\ \/ /\ job \in JobSpace(MaxReq, {""}, {""})
          /\ resumes \in {<<r>> : r \in ResumeSpace(1, MaxCand, {""}, {None}, {""})}
          /\ embedSim \in [SemKeys -> {7852, EncodeRaises}]
          /\ transcript_text = "Great team! "
          /\ classifier = [x \in SentencePool |->
                              [raises |-> TRUE, label |-> "", score |-> 0]]
       \/ /\ job = [required_skills |-> <<"Java">>, experience_required |-> "",
                    education_required |-> ""]
          /\ resumes = << [id |-> 1, skills |-> <<"Go">>, experience |-> "",
                           years_of_experience |-> None, education |-> ""] >>
          /\ embedSim = [k \in SemKeys |-> 7852]
          /\ transcript_text \in Transcripts(2)
          /\ classifier \in [SentencePool -> PipelineAnswers]
    /\ svc = [s \in Services |-> [model |-> None, initialized |-> FALSE]]
    /\ outcomes = <<>>
    /\ phase = "ready"
    /\ callers = [s \in Services |-> [c \in Callers |-> "idle"]]
    /\ loads = [s \in Services |-> 0]
    /\ jobs = <<>>
    /\ screening_results = <<>>
    /\ interviews = <<>>
    /\ requests = <<>>
    /\ received = 0
    /\ sentiment_analysis = None
    /\ raw_text = ""
    /\ nlp = <<>>
    /\ skills_database = <<>>
    /\ parsed_data = <<>>

NextFallback == MatchCandidates \/ Analyze

SpecFallback == InitFallback /\ [][NextFallback]_vars

\* ------------------------------------------------------ scoring: claims
Scored == phase = "done"

\* the resume an outcome was computed for (resume i has id i)
ResumeOf(o) == resumes[o.resume_id]

MatcherModel == svc["matching"].model

UnroundedOverall(o) ==
    weighted_overall(o.score_breakdown.skill_score,
                     o.score_breakdown.experience_score,
                     o.score_breakdown.education_score)

\* C1: for every candidate and requirement, skill_score, experience_score,
\* education_score and the overall score (unrounded, and as reported in
\* tenths) all lie in [0, 100].
C1_ScoresInRange ==
    Scored =>
        \A i \in 1..Len(outcomes) :
            LET o == outcomes[i]
                b == o.score_breakdown
            IN /\ RatGe(b.skill_score, 0) /\ RatLe(b.skill_score, 100)
               /\ b.experience_score >= 0 /\ b.experience_score <= 100
               /\ b.education_score >= 0 /\ b.education_score <= 100
               /\ RatGe(UnroundedOverall(o), 0) /\ RatLe(UnroundedOverall(o), 100)
               /\ o.score >= 0 /\ o.score <= 1000

\* C1 witness: a scoring whose matched_count exceeds the number of required
\* skills (a semantic similarity just above 1.0), so that the clamp decides
\* skill_score
C1_Witness ==
    /\ Scored
    /\ Len(outcomes) = 1
    /\ \E k \in 1..Len(outcomes[1].skill_matches) :
          outcomes[1].skill_matches[k].confidence > SimScale
    /\ RatEq(outcomes[1].score_breakdown.skill_score, Rat(100, 1))

\* the tier the thresholds 75 / 60 / 45 give a score reported in tenths
TierOfReported(score) ==
    IF score >= 750 THEN "highly_recommended"
    ELSE IF score >= 600 THEN "recommended"
    ELSE IF score >= 450 THEN "maybe"
    ELSE "not_recommended"

\* C2: in every outcome the recommendation agrees with the reported overall
\* score s: highly_recommended iff s >= 75, recommended iff 60 <= s < 75,
\* maybe iff 45 <= s < 60, not_recommended iff s < 45.
C2_RecommendationMatchesReportedScore ==
    Scored =>
        \A i \in 1..Len(outcomes) :
            outcomes[i].recommendation = TierOfReported(outcomes[i].score)

\* the tier a required skill falls in, stated from the tiers' definitions:
\* exact, else partial, else semantic (model loaded, similarity >= 0.6),
\* else none
BestSimilarity(req, cands) ==
    CHOOSE v \in {CosSim(req, cands[i]) : i \in 1..Len(cands)} :
        \A i \in 1..Len(cands) : CosSim(req, cands[i]) <= v

ExpectedMatch(req, cands, mdl) ==
    IF \E i \in 1..Len(cands) : Lower(cands[i]) = Lower(req)
    THEN [is_matched |-> TRUE, match_type |-> "exact", confidence |-> SimScale]
    ELSE IF \E i \in 1..Len(cands) :
                \/ IsSubstr(Lower(req), Lower(cands[i]))
                \/ IsSubstr(Lower(cands[i]), Lower(req))
    THEN [is_matched |-> TRUE, match_type |-> "partial",
          confidence |-> (8 * SimScale) \div 10]
    ELSE IF /\ ~IsNone(mdl)
            /\ cands # <<>>
            /\ 10 * BestSimilarity(req, cands) >= 6 * SimScale
    THEN [is_matched |-> TRUE, match_type |-> "semantic",
          confidence |-> BestSimilarity(req, cands)]
    ELSE [is_matched |-> FALSE, match_type |-> "none", confidence |-> 0]

\* C3: for each required skill the tiers are tried in the order exact,
\* partial, semantic, none and the first that hits decides the record; a
\* required skill equal to a candidate skill ignoring case is always exact.
C3_FirstTierWins ==
    Scored =>
        \A i \in 1..Len(outcomes) :
            LET o == outcomes[i]
                cands == ResumeOf(o).skills
            IN /\ Len(o.skill_matches) = Len(job.required_skills)
               /\ \A k \in 1..Len(o.skill_matches) :
                     LET m == o.skill_matches[k]
                         e == ExpectedMatch(job.required_skills[k], cands, MatcherModel)
                     IN /\ m.skill = job.required_skills[k]
                        /\ m.is_matched = e.is_matched
                        /\ m.match_type = e.match_type
                        /\ m.confidence = e.confidence

\* C3 witness: a required skill that one candidate skill contains (the
\* partial tier would hit on it first) and another equals ignoring case,
\* recorded as exact
C3_Witness ==
    /\ Scored
    /\ Len(outcomes) = 1
    /\ job.required_skills = <<"Java">>
    /\ resumes[1].skills = <<"JavaScript", "java">>
    /\ outcomes[1].skill_matches[1].match_type = "exact"
    /\ outcomes[1].skill_matches[1].confidence = SimScale

\* the weight of a record: 1.0 exact, 0.8 partial, the similarity for
\* semantic, 0 for none (in 1/SimScale)
WeightOf(m) ==
    CASE m.match_type = "exact" -> SimScale
      [] m.match_type = "partial" -> (8 * SimScale) \div 10
      [] m.match_type = "semantic" -> m.confidence
      [] OTHER -> 0

WeightSum(ms) == SumSeq([k \in 1..Len(ms) |-> WeightOf(ms[k])])

\* C4: for a non-empty required-skill list, skill_score is 100 times the
\* sum of the per-skill weights divided by the number of required skills,
\* clamped to at most 100.
C4_SkillScoreFormula ==
    Scored =>
        \A i \in 1..Len(outcomes) :
            LET o == outcomes[i]
                n == Len(job.required_skills)
            IN n > 0 =>
                 RatEq(o.score_breakdown.skill_score,
                       RatMin(Rat(WeightSum(o.skill_matches), (SimScale \div 100) * n),
                              100))

\* C4 witness: two required skills, one matched partially and one
\* semantically below 1.0
C4_Witness ==
    /\ Scored
    /\ Len(outcomes) = 1
    /\ Len(job.required_skills) = 2
    /\ \E k \in 1..2 : outcomes[1].skill_matches[k].match_type = "partial"
    /\ \E k \in 1..2 :
          /\ outcomes[1].skill_matches[k].match_type = "semantic"
          /\ outcomes[1].skill_matches[k].confidence < SimScale

\* C5: if the job's required skill list is empty then skill_score is 100
\* and the overall score is 0.2*experience_score + 0.1*education_score + 70,
\* for every candidate skill set.
C5_NoRequiredSkills ==
    Scored =>
        \A i \in 1..Len(outcomes) :
            LET o == outcomes[i]
                b == o.score_breakdown
            IN job.required_skills = <<>> =>
                 /\ RatEq(b.skill_score, Rat(100, 1))
                 /\ RatEq(UnroundedOverall(o),
                          Rat(2 * b.experience_score + b.education_score + 700, 10))
                 /\ o.score = 2 * b.experience_score + b.education_score + 700

\* C5 witness: no required skill, a candidate with a skill, and sub-scores
\* that are not the defaults
C5_Witness ==
    /\ Scored
    /\ Len(outcomes) = 1
    /\ job.required_skills = <<>>
    /\ resumes[1].skills # <<>>
    /\ outcomes[1].score_breakdown.experience_score = 40
    /\ outcomes[1].score_breakdown.education_score = 100
    /\ outcomes[1].score = 880

\* C6: match_candidates returns exactly one outcome per input resume,
\* ordered by overall score descending, and outcomes of equal score keep
\* the relative order of their resumes in the input list.
C6_RankingStable ==
    Scored =>
        /\ Len(outcomes) = Len(resumes)
        /\ \A r \in 1..Len(resumes) :
              Cardinality({i \in 1..Len(outcomes) : outcomes[i].resume_id = resumes[r].id}) = 1
        /\ \A i \in 1..Len(outcomes) :
              outcomes[i] = match_single_candidate(ResumeOf(outcomes[i]), job, MatcherModel)
        /\ \A i, j \in 1..Len(outcomes) :
              i < j =>
                 /\ outcomes[i].score >= outcomes[j].score
                 /\ outcomes[i].score = outcomes[j].score
                       => outcomes[i].resume_id < outcomes[j].resume_id

\* C6 witness: three candidates, the first scoring lower than the two
\* others, which tie: the tied ones come first, in their input order
C6_Witness ==
    /\ Scored
    /\ Len(resumes) = 3
    /\ <<outcomes[1].resume_id, outcomes[2].resume_id, outcomes[3].resume_id>>
          = <<2, 3, 1>>
    /\ outcomes[1].score = outcomes[2].score
    /\ outcomes[2].score > outcomes[3].score
    /\ resumes[2] # [resumes[3] EXCEPT !.id = 2]

\* the batches made of some of the resumes of rs, each at most once, in
\* any order
Arrangements(rs) ==
    {[k \in DOMAIN p |-> rs[p[k]]] :
        p \in {q \in SeqUpTo(DOMAIN rs, Len(rs)) :
                  \A a, b \in DOMAIN q : a # b => q[a] # q[b]}}

\* every element of the list res is an element of the list outs
AllAmong(res, outs) ==
    \A k \in DOMAIN res : \E i \in DOMAIN outs : outs[i] = res[k]

\* an outcome without the id of its resume
WithoutId(o) == [o EXCEPT !.resume_id = 0]

\* a resume without its id: the candidate's parsed data
ProfileOf(r) == [r EXCEPT !.id = 0]

LeadingInt(text) ==
    IF text # "" /\ Char(text, 1) \in Digits THEN Some(DigitRun(text, 1, 0)) ELSE None

\* C14: with a leading integer R in the experience requirement and known
\* candidate years Y, experience_score is 100 if Y >= R, 80 if Y >= 0.7*R,
\* 60 if Y >= 0.5*R, else 40; with an empty requirement text it is 80
\* whatever the candidate.
C14_ExperienceTiers ==
    Scored =>
        \A i \in 1..Len(outcomes) :
            LET e == outcomes[i].score_breakdown.experience_score
                R == LeadingInt(job.experience_required)
                Y == ResumeOf(outcomes[i]).years_of_experience
            IN /\ job.experience_required = "" => e = 80
               /\ (~IsNone(R) /\ ~IsNone(Y)) =>
                     e = (IF Val(Y) >= Val(R) THEN 100
                          ELSE IF 10 * Val(Y) >= 7 * Val(R) THEN 80
                          ELSE IF 10 * Val(Y) >= 5 * Val(R) THEN 60
                          ELSE 40)

\* C14 witness: 7 years for a requirement of 10, exactly 0.7 of it: 80
C14_Witness ==
    /\ Scored
    /\ Len(outcomes) = 1
    /\ job.experience_required = "10 years"
    /\ resumes[1].years_of_experience = Some(7)
    /\ outcomes[1].score_breakdown.experience_score = 80

\* the levels of the education keywords
LevelOfKeyword ==
    [k \in {"phd", "doctorate", "master", "m.tech", "m.s.", "bachelor",
            "b.tech", "b.e.", "b.s.", "diploma", "certification"} |->
        CASE k \in {"phd", "doctorate"} -> 100
          [] k \in {"master", "m.tech", "m.s."} -> 80
          [] k \in {"bachelor", "b.tech", "b.e.", "b.s."} -> 60
          [] k = "diploma" -> 40
          [] k = "certification" -> 30]

\* the tier of a text: the highest level of the keywords found in it, or
\* the default when there is none
TierOfText(text, default) ==
    LET found == {LevelOfKeyword[k] : k \in {w \in DOMAIN LevelOfKeyword :
                                                IsSubstr(w, Lower(text))}}
    IN IF found = {} THEN default
       ELSE CHOOSE l \in found : \A m \in found : m <= l

\* C15: education scoring maps the candidate text and the requirement text
\* to tiers (PhD / Doctorate 100, Master 80, Bachelor 60, Diploma 40,
\* Certification 30; the highest keyword found, the required tier 60 when
\* none is found) and returns 100 if the candidate tier >= the required
\* tier, 80 if it is >= required - 20, 60 if >= required - 40, else 40;
\* with no requirement text it returns 80.
C15_EducationTiers ==
    Scored =>
        \A i \in 1..Len(outcomes) :
            LET e == outcomes[i].score_breakdown.education_score
                c == TierOfText(ResumeOf(outcomes[i]).education, 0)
                q == TierOfText(job.education_required, 60)
            IN e = (IF job.education_required = "" THEN 80
                    ELSE IF c >= q THEN 100
                    ELSE IF c >= q - 20 THEN 80
                    ELSE IF c >= q - 40 THEN 60
                    ELSE 40)

\* C15 witness: a Bachelor and Master candidate (tier 80, the higher of the
\* two) against a PhD requirement: within 20, 80
C15_Witness ==
    /\ Scored
    /\ Len(outcomes) = 1
    /\ job.education_required = "PhD"
    /\ resumes[1].education = "B.Tech, M.S."
    /\ outcomes[1].score_breakdown.education_score = 80

\* ------------------------------------------- missing models: claims
\* the call of the embedding model on a required skill and the candidate
\* skills raises
EncodeRaisesOn(req, cands) ==
    \E i \in 1..Len(cands) :
        /\ {Lower(req), Lower(cands[i])} \in DOMAIN embedSim
        /\ embedSim[{Lower(req), Lower(cands[i])}] = EncodeRaises

\* the class the keyword counts give a sentence
KeywordClass(sentence) ==
    IF CountIn(positive_words, Lower(sentence)) > CountIn(negative_words, Lower(sentence))
    THEN "positive"
    ELSE IF CountIn(negative_words, Lower(sentence)) > CountIn(positive_words, Lower(sentence))
    THEN "negative"
    ELSE "neutral"

\* the class a sentence is to be counted in: by the label of the pipeline
\* when it is loaded and answers, else by the keyword counts
ExpectedClass(sentence) ==
    IF ~IsNone(svc["sentiment"].model) /\ ~classifier[sentence].raises
    THEN (IF classifier[sentence].label = "POSITIVE" THEN "positive" ELSE "negative")
    ELSE KeywordClass(sentence)

NumberOf(class, sentences) ==
    Cardinality({i \in DOMAIN sentences : ExpectedClass(sentences[i]) = class})

\* C12: when the embedding model is not loaded, or its call raises, the
\* scoring returns and the record of the required skill is the exact,
\* partial or none record the string tests give (never semantic); when the
\* sentiment pipeline is not loaded, or its call on a sentence raises, the
\* analysis returns and the sentence is counted by its positive and
\* negative keyword counts.
C12_FallbackWithoutModel ==
    /\ Scored =>
          \A i \in 1..Len(outcomes) :
              \A k \in 1..Len(outcomes[i].skill_matches) :
                  (\/ IsNone(MatcherModel)
                   \/ EncodeRaisesOn(job.required_skills[k], ResumeOf(outcomes[i]).skills))
                     => LET m == outcomes[i].skill_matches[k]
                            e == ExpectedMatch(job.required_skills[k],
                                               ResumeOf(outcomes[i]).skills, None)
                        IN /\ m.match_type \in {"exact", "partial", "none"}
                           /\ m.match_type = e.match_type
                           /\ m.is_matched = e.is_matched
                           /\ m.confidence = e.confidence
    /\ ~IsNone(sentiment_analysis) =>
          LET a == Val(sentiment_analysis)
          IN /\ a.positive_count = NumberOf("positive", a.sentences)
             /\ a.negative_count = NumberOf("negative", a.sentences)
             /\ a.neutral_count = NumberOf("neutral", a.sentences)
             /\ IsNone(svc["sentiment"].model) =>
                   \A c \in {"positive", "negative", "neutral"} :
                       NumberOf(c, a.sentences) =
                           Cardinality({i \in DOMAIN a.sentences :
                                           KeywordClass(a.sentences[i]) = c})

\* C12 witness: both models are loaded and both calls raise: the required
\* skill that only the semantic tier could match is recorded as none, and
\* the sentence is counted positive by its keywords
C12_Witness ==
    /\ Scored
    /\ ~IsNone(MatcherModel)
    /\ job.required_skills = <<"Go">>
    /\ resumes[1].skills = <<"java">>
    /\ embedSim[{"go", "java"}] = EncodeRaises
    /\ outcomes[1].skill_matches[1].match_type = "none"
    /\ ~IsNone(sentiment_analysis)
    /\ ~IsNone(svc["sentiment"].model)
    /\ classifier["Great team"].raises
    /\ Val(sentiment_analysis).sentences = <<"Great team">>
    /\ Val(sentiment_analysis).positive_count = 1

\* ---------------------------------------------------- sentiment: claims
\* C20: every sentence of the transcript is counted once, as positive,
\* negative or neutral; with at least one sentence the score of
\* _analyze_sentiment is (positive_count*100 + neutral_count*50) / total,
\* it lies in [0, 100] (as does the rounded score of the analysis), and the
\* overall sentiment is positive if positive_count > 2*negative_count,
\* negative if negative_count > 2*positive_count, and neutral otherwise.
C20_SentimentAggregation ==
    ~ IsNone(sentiment_analysis) =>
        LET r == Val(sentiment_analysis)
        IN /\ r.positive_count + r.negative_count + r.neutral_count = Len(r.sentences)
           /\ r.positive_count >= 0 /\ r.negative_count >= 0 /\ r.neutral_count >= 0
           /\ Len(r.sentences) > 0 =>
                 RatEq(r.unrounded_sentiment_score,
                       Rat(r.positive_count * 100 + r.neutral_count * 50,
                           Len(r.sentences)))
           /\ RatGe(r.unrounded_sentiment_score, 0)
           /\ RatLe(r.unrounded_sentiment_score, 100)
           /\ r.sentiment_score \in 0..1000
           /\ r.overall_sentiment =
                 IF r.positive_count > 2 * r.negative_count THEN "positive"
                 ELSE IF r.negative_count > 2 * r.positive_count THEN "negative"
                 ELSE "neutral"

\* three sentences were analyzed: two positive and one neutral, score 83.3
C20_Witness ==
    /\ ~ IsNone(sentiment_analysis)
    /\ Val(sentiment_analysis).positive_count = 2
    /\ Val(sentiment_analysis).negative_count = 0
    /\ Val(sentiment_analysis).neutral_count = 1
    /\ Val(sentiment_analysis).sentiment_score = 833
    /\ Val(sentiment_analysis).overall_sentiment = "positive"

\* The confidence score of the claim for a transcript: the base (60 when
\* no marker is found), adjusted by the average sentence length, clamped.
ConfidenceAdjustedAlways(transcript) ==
    LET high == CountIn(confidence_indicators.high, Lower(transcript))
        medium == CountIn(confidence_indicators.medium, Lower(transcript))
        low == CountIn(confidence_indicators.low, Lower(transcript))
        base == IF high + medium + low = 0 THEN Rat(60, 1)
                ELSE Rat(high * 100 + medium * 60 + low * 30, high + medium + low)
        words == words_in(split_into_sentences(transcript))
        n == Len(split_into_sentences(transcript))
    IN RatMin(RatMax(IF n > 0 /\ words > 15 * n THEN RatPlus(base, 10)
                     ELSE IF n = 0 \/ words < 8 * n THEN RatPlus(base, -10)
                     ELSE base, 0), 100)

\* C21: the confidence score of an analysis is the base value
\* (high*100 + medium*60 + low*30)/total, or 60 when no marker is found,
\* plus 10 when the sentences average more than 15 words, minus 10 when
\* they average fewer than 8, clamped to [0, 100]; the default base of 60 is
\* adjusted as well.
C21_ConfidenceAdjusted ==
    (~ IsNone(sentiment_analysis) /\ Val(sentiment_analysis).sentences # <<>>) =>
        /\ RatEq(Val(sentiment_analysis).unrounded_confidence_score,
                 ConfidenceAdjustedAlways(transcript_text))
        /\ Val(sentiment_analysis).confidence_score \in 0..1000

\* C22: the key topics of an analysis are at most 10 and no topic is in
\* the list twice.
C22_KeyTopicsDistinct ==
    ~ IsNone(sentiment_analysis) =>
        /\ Len(Val(sentiment_analysis).key_topics) <= 10
        /\ \A i, j \in DOMAIN Val(sentiment_analysis).key_topics :
              i # j => Val(sentiment_analysis).key_topics[i]
                          # Val(sentiment_analysis).key_topics[j]

\* ------------------------------------------------ resume parsing: claims
\* The first line of the text that is not empty, stripped.
FirstNonEmptyLine(text) ==
    IF StripAll(lines_of(text)) = <<>> THEN "" ELSE StripAll(lines_of(text))[1]

\* The years of experience the priority "explicit phrase, then entry-level
\* heuristics, then null" gives for a text.
YearsExplicitFirst(text) ==
    IF ~ IsNone(explicit_years(text)) THEN explicit_years(text)
    ELSE IF is_entry_level_resume(text) \/ no_experience_indicated(text) THEN Some(0)
    ELSE None

\* C16: the estimated years of experience of a parsed resume are the N of
\* an explicit "<N> years (of) experience" phrase whenever the text has
\* one; they are 0.0 only when it has none and the text matches the
\* entry-level heuristics; otherwise they are null.
C16_ExplicitPhraseFirst ==
    \A p \in DOMAIN parsed_data :
        parsed_data[p].years_of_experience = YearsExplicitFirst(raw_text)

\* The name the strategies give in the order: valid person in the first
\* five lines; the first non-empty line if it is 2-4 alphabetic words and no
\* section header; the name derived from the email; a valid person starting
\* before offset 500; "Unknown".
NameByPriority(tagged, text) ==
    IF person_entities(tagged, text) # <<>> THEN person_entities(tagged, text)[1]
    ELSE IF looks_like_a_name(FirstNonEmptyLine(text)) THEN FirstNonEmptyLine(text)
    ELSE IF extract_name_from_email(extract_email(text)) # ""
    THEN extract_name_from_email(extract_email(text))
    ELSE IF early_persons(tagged, text) # <<>> THEN early_persons(tagged, text)[1]
    ELSE "Unknown"

\* C17: the name of a parsed resume is the result of the first strategy
\* that succeeds, in the stated order, "Unknown" exactly when all four fail,
\* and never empty.
C17_FirstSuccessfulStrategy ==
    \A p \in DOMAIN parsed_data :
        /\ parsed_data[p].name = NameByPriority(nlp, raw_text)
        /\ parsed_data[p].name # ""

\* C18: two extractions from the same raw text give the same profile, with
\* the same skills in the same order.
C18_SameTextSameProfile ==
    \A p, q \in DOMAIN parsed_data : parsed_data[p] = parsed_data[q]

\* C19: the skills of a parsed resume are at most 20 and no two of them
\* are equal ignoring case.
C19_SkillsCappedAndDistinct ==
    \A p \in DOMAIN parsed_data :
        /\ Len(parsed_data[p].skills) <= 20
        /\ \A i, j \in DOMAIN parsed_data[p].skills :
              i # j => Lower(parsed_data[p].skills[i]) # Lower(parsed_data[p].skills[j])

\* a resume that mentions more than 20 skills of the database was parsed,
\* and one that mentions a skill three times
C19_Witness ==
    \/ /\ parsed_data # <<>>
       /\ Len(extract_skills_unlimited(skills_database, raw_text)) > 20
       /\ Len(parsed_data[1].skills) = 20
    \/ /\ parsed_data # <<>>
       /\ raw_text = "Java, JAVA and java"
       /\ parsed_data[1].skills = <<"Java">>

\* ------------------------------------- screening and interviews: claims
\* the stored ScreeningResult of an id
StoredResult(coll, id) == coll[CHOOSE i \in DOMAIN coll : coll[i].id = id]

\* request r takes its blend step: the save of the ScreeningResult it
\* found, in analyze_interview or in process_interview
BlendStep(r) ==
    /\ Len(requests') = Len(requests)
    /\ requests[r].pc = "blend"
    /\ requests'[r].pc = "interview_save"

\* no request is being served
Quiescent == requests = <<>>

\* C8: when a request blends its analysis into a ScreeningResult, the
\* final_score stored by that step is overall_score*0.6 +
\* sentiment_score*0.2 + confidence_score*0.2, of the overall_score of
\* that result (the one the request read, which is the one stored after the
\* step) and of the sentiment and confidence scores of the new analysis,
\* which are stored with it; in analyze_interview and in process_interview.
C8_BlendFormula ==
    [][\A r \in DOMAIN requests :
          BlendStep(r) =>
              LET a == Val(requests[r].analysis)
                  read == Val(requests[r].screening_result)
                  stored == StoredResult(screening_results', read.id)
              IN /\ stored.overall_score = read.overall_score
                 /\ stored.final_score =
                       Some(6 * stored.overall_score + 2 * a.sentiment_score
                              + 2 * a.confidence_score)
                 /\ stored.interview_sentiment_score = Some(a.sentiment_score)
                 /\ stored.interview_confidence_score = Some(a.confidence_score)
                 /\ stored.interview_id = Some(Val(requests[r].interview).id)
      ]_vars

\* an analyze_interview request and a process_interview request have both
\* blended into the result of overall_score 94.0; the last one stored
\* sentiment 70.0 and confidence 90.0: final_score 88.40
C8_Witness ==
    /\ \E r1 \in DOMAIN requests, r2 \in DOMAIN requests :
          /\ requests[r1].kind = "analyze"
          /\ requests[r2].kind = "process"
          /\ requests[r1].pc = "interview_save"
          /\ requests[r2].pc = "interview_save"
          /\ ~IsNone(requests[r1].screening_result)
          /\ ~IsNone(requests[r2].screening_result)
    /\ \E i \in DOMAIN screening_results :
          /\ screening_results[i].overall_score = 940
          /\ screening_results[i].interview_sentiment_score = Some(700)
          /\ screening_results[i].interview_confidence_score = Some(900)
          /\ screening_results[i].final_score = Some(8840)

\* C9: once every request has returned, a ScreeningResult of a resume that
\* has an analyzed interview has a final_score (whatever the order of the
\* screening and the analysis, and for every job the resume was screened
\* for).
C9_FinalScoreOnceBothExist ==
    Quiescent =>
        \A i \in DOMAIN screening_results, k \in InterviewIds :
            (/\ interviews[k].is_analyzed
             /\ interviews[k].resume_id = screening_results[i].resume_id)
                => ~IsNone(screening_results[i].final_score)

\* C10: the blend step of a request leaves the overall_score,
\* score_breakdown, skill_matches, matched_skills_count and recommendation
\* of the stored ScreeningResult as they were before the step.
C10_BlendKeepsScreeningFields ==
    [][\A r \in DOMAIN requests :
          BlendStep(r) =>
              LET id == Val(requests[r].screening_result).id
                  before == StoredResult(screening_results, id)
                  after == StoredResult(screening_results', id)
              IN /\ after.overall_score = before.overall_score
                 /\ after.score_breakdown = before.score_breakdown
                 /\ after.skill_matches = before.skill_matches
                 /\ after.matched_skills_count = before.matched_skills_count
                 /\ after.recommendation = before.recommendation
      ]_vars

\* request r takes its store step: the save or the insert of the result of
\* its screening run for one resume
ScreenStoreStep(r) ==
    /\ Len(requests') = Len(requests)
    /\ requests[r].kind = "screen"
    /\ requests[r].pc = "store"
    /\ requests'[r].pc # "store"

\* the records of a stored result are one per required skill of the job jb,
\* in order, matched iff their type is not none, with a confidence in
\* [0, 1], and the two counts agree with them
RecordsOfRun(d, jb) ==
    /\ Len(d.skill_matches) = Len(jb.required_skills)
    /\ \A k \in 1..Len(d.skill_matches) :
          /\ d.skill_matches[k].skill = jb.required_skills[k]
          /\ d.skill_matches[k].is_matched = (d.skill_matches[k].match_type # "none")
          /\ d.skill_matches[k].confidence >= 0
          /\ d.skill_matches[k].confidence <= SimScale
    /\ d.matched_skills_count =
          Cardinality({k \in 1..Len(d.skill_matches) : d.skill_matches[k].is_matched})
    /\ d.total_required_skills = Len(jb.required_skills)

\* C13: the persisted skill_matches, matched_skills_count and
\* total_required_skills of a ScreeningResult are those of the most recent
\* screening run of its job and resume: a step changes them only when it
\* stores the result of a run for that job and resume, and then they are
\* the records of that run (replaced, not appended to): one per required
\* skill of the run's job, in order, is_matched iff match_type is not none,
\* confidence in [0, 1], matched_skills_count the number of matched
\* records and total_required_skills the number of required skills.
C13_SkillMatchesOfLastRun ==
    [][\A i \in DOMAIN screening_results' :
          \/ /\ i \in DOMAIN screening_results
             /\ screening_results'[i].skill_matches = screening_results[i].skill_matches
             /\ screening_results'[i].matched_skills_count
                   = screening_results[i].matched_skills_count
             /\ screening_results'[i].total_required_skills
                   = screening_results[i].total_required_skills
          \/ \E r \in DOMAIN requests :
                /\ ScreenStoreStep(r)
                /\ screening_results'[i].job_id = Val(requests[r].job).id
                /\ screening_results'[i].resume_id
                      = requests[r].results[requests[r].idx].resume_id
                /\ screening_results'[i].skill_matches
                      = requests[r].results[requests[r].idx].skill_matches
                /\ RecordsOfRun(screening_results'[i], Val(requests[r].job))
      ]_vars

\* C23: an analyzed interview is a transcribed one, with a transcript that
\* is not empty, in every state of the stored interviews (also after a
\* transcribe, analyze or process call that failed).
C23_AnalyzedOnlyIfTranscribed ==
    \A k \in DOMAIN interviews :
        interviews[k].is_analyzed =>
            /\ interviews[k].is_transcribed
            /\ ~ IsNone(interviews[k].transcript)
            /\ Val(interviews[k].transcript) # ""

\* C24: there is at most one ScreeningResult per job and resume.
C24_OneResultPerJobAndResume ==
    \A i, j \in DOMAIN screening_results :
        (/\ screening_results[i].job_id = screening_results[j].job_id
         /\ screening_results[i].resume_id = screening_results[j].resume_id)
            => i = j

\* C25: a stored final_score is the blend of the stored overall_score and
\* the stored interview scores.
C25_FinalScoreOfCurrentScores ==
    \A i \in DOMAIN screening_results :
        ~ IsNone(screening_results[i].final_score) =>
            /\ ~ IsNone(screening_results[i].interview_sentiment_score)
            /\ ~ IsNone(screening_results[i].interview_confidence_score)
            /\ Val(screening_results[i].final_score) =
                  6 * screening_results[i].overall_score
                     + 2 * Val(screening_results[i].interview_sentiment_score)
                     + 2 * Val(screening_results[i].interview_confidence_score)

\* C28: a stored interview has a transcription_error only when it is not
\* transcribed and an analysis_error only when it is not analyzed.
C28_ErrorsAgreeWithFlags ==
    \A k \in DOMAIN interviews :
        /\ ~ IsNone(interviews[k].transcription_error) => ~ interviews[k].is_transcribed
        /\ ~ IsNone(interviews[k].analysis_error) => ~ interviews[k].is_analyzed

\* ------------------------------- uploads, reparses, deletions: claims

\* C26: only parsed resumes are screened: whatever uploads, reparses and
\* screenings (with or without resume_ids) came before, every resume that
\* a screening request scores has is_parsed true when it is read for the
\* scoring.
C26_OnlyParsedAreScored ==
    \A r \in DOMAIN requests :
        requests[r].kind = "screen" =>
            \A k \in DOMAIN requests[r].resumes :
                requests[r].resumes[k].is_parsed

\* C27: once the delete requests have completed (and the screening
\* requests that ran beside them), no ScreeningResult refers to a deleted
\* job or a deleted resume.
C27_DeleteCascades ==
    requests = <<>> =>
        \A i \in DOMAIN screening_results :
            /\ screening_results[i].job_id \in DOMAIN jobs
            /\ ~IsNone(get(resumes, screening_results[i].resume_id))

\* ------------------------------------------- ConnectionManager: claims

\* where websocket ws is in the lists of active_connections
Occurrences(ws) ==
    {<<user_id, i>> \in UserIds \X (1..MaxSockets) :
        /\ user_id \in DOMAIN active_connections
        /\ i \in DOMAIN active_connections[user_id]
        /\ active_connections[user_id][i] = ws}

\* C29: the three registries of the ConnectionManager agree: a websocket is
\* in all_connections iff it is a key of connection_info iff it is exactly
\* once in the lists of active_connections, in the list of the user_id that
\* connection_info has for it; no list of active_connections is empty; and
\* disconnect of a websocket that is not registered changes nothing.
C29_RegistriesAgree ==
    /\ DOMAIN connection_info = all_connections
    /\ \A ws \in Websockets :
          IF ws \in all_connections
          THEN /\ Cardinality(Occurrences(ws)) = 1
               /\ \A o \in Occurrences(ws) :
                     o[1] = connection_info[ws].user_id
          ELSE Occurrences(ws) = {}
    /\ \A user_id \in DOMAIN active_connections :
          active_connections[user_id] # <<>>
    /\ \A ws \in Websockets \ all_connections :
          disconnect(manager, ws) = manager

\* a websocket was removed after its peer was lost and its endpoint has
\* called disconnect as well, while another websocket is registered and
\* has been sent an event
C29_Witness ==
    \E a, b \in Websockets :
        /\ sockets[a].broken
        /\ sockets[a].pc = "closed"
        /\ a \notin all_connections
        /\ b \in all_connections
        /\ sockets[b].received # {}

\* C30: when broadcast_event with a user_id returns, every websocket that
\* is registered for that user and was so when the event was made has been
\* sent the event, no websocket of another user has, and every websocket
\* whose send failed is out of the manager, whatever connects, disconnects
\* and lost peers came in between.
C30_DeliveredToTheUser ==
    [][\A c \in DOMAIN sends :
          (\A d \in DOMAIN sends' : sends'[d].message # sends[c].message) =>
              /\ \A ws \in DOMAIN connection_info' :
                    (/\ connection_info'[ws].user_id = sends[c].user_id
                     /\ connection_info'[ws].connected_at < sends[c].message)
                        => sends[c].message \in sockets'[ws].received
              /\ \A ws \in Websockets :
                    sends[c].message \in sockets'[ws].received
                        => sockets'[ws].user_id = sends[c].user_id
              /\ \A ws \in Websockets :
                    (\/ Has(sends[c].disconnected, ws)
                     \/ ws = sends[c].websocket /\ SendFails(ws))
                        => ws \notin all_connections']_vars

\* ------------------------------------------------ lazy loading: claims
\* C7: the model of a service is loaded at most once: however the
\* requests that call _initialize interleave, at most one load_model call
\* is started per service.
C7_ModelLoadedAtMostOnce == \A s \in Services : loads[s] <= 1

====
